---- MODULE Spec2Model ----
(***************************************************************************)
(* Model of scripts/extract-definitions.py: the extractor that walks the   *)
(* syntax tree of scriptdefs.py, the name categorizers, the description    *)
(* resolver, the TypeScript emitter and the main() pipeline.               *)
(*                                                                         *)
(* Python strings are sequences of one-character strings, so that prefix,  *)
(* substring, split, title-casing and escaping are computed as the code    *)
(* computes them.                                                          *)
(***************************************************************************)
EXTENDS Integers, Sequences, FiniteSets, TLC

VARIABLES pc, input_exists, tree, walk, definitions, ts_content, out_file,
          exit_code, failure, cat_kind, cat_name, cat_result

vars == <<pc, input_exists, tree, walk, definitions, ts_content, out_file,
          exit_code, failure, cat_kind, cat_name, cat_result>>

pipeline_vars == <<pc, input_exists, tree, walk, definitions, ts_content, out_file,
                   exit_code, failure>>

cat_vars == <<cat_kind, cat_name, cat_result>>

(***************************************************************************)
(* Bounds of the model.                                                    *)
(***************************************************************************)
\* elements of all the lists of one source file together
MaxItems == 3
\* assignment statements of one source file that bind a list to a group identifier
MaxStatements == 2
\* levels of the syntax tree between such a statement and the module
MaxDepth == 1
\* underscore-separated segments of a constant name given to the categorizer
MaxSegs == 3
\* words of a function name given to the categorizer
MaxWords == 2

(***************************************************************************)
(* Python str methods used by the script.                                  *)
(***************************************************************************)
\* A character outside ASCII that the text of this module cannot hold is
\* written as its code point: "U+212A" is the one character KELVIN SIGN.
UpperCase == <<"A","B","C","D","E","F","G","H","I","J","K","L","M","N","O","P","Q","R","S","T","U","V","W","X","Y","Z">>
LowerCase == <<"a","b","c","d","e","f","g","h","i","j","k","l","m","n","o","p","q","r","s","t","u","v","w","x","y","z">>

\* the place of c in a sequence of letters, 0 when it is not one of them
LetterIndex(letters, c) ==
    IF \E i \in 1..Len(letters) : letters[i] = c
    THEN CHOOSE i \in 1..Len(letters) : letters[i] = c
    ELSE 0

\* The cased characters beyond ASCII, each with what str.lower() and
\* str.title() make of it standing alone.
\* cased characters beyond ASCII whose lower-case and title-case mappings are
\* single characters: the character, its lower case, its title case, and so on
CaseTable ==
    <<
      "ª", "ª", "ª", "µ", "µ", "Μ", "º", "º", "º", "À", "à", "À",
      "Á", "á", "Á", "Â", "â", "Â", "Ã", "ã", "Ã", "Ä", "ä", "Ä",
      "Å", "å", "Å", "Æ", "æ", "Æ", "Ç", "ç", "Ç", "È", "è", "È",
      "É", "é", "É", "Ê", "ê", "Ê", "Ë", "ë", "Ë", "Ì", "ì", "Ì",
      "Í", "í", "Í", "Î", "î", "Î", "Ï", "ï", "Ï", "Ð", "ð", "Ð",
      "Ñ", "ñ", "Ñ", "Ò", "ò", "Ò", "Ó", "ó", "Ó", "Ô", "ô", "Ô",
      "Õ", "õ", "Õ", "Ö", "ö", "Ö", "Ø", "ø", "Ø", "Ù", "ù", "Ù",
      "Ú", "ú", "Ú", "Û", "û", "Û", "Ü", "ü", "Ü", "Ý", "ý", "Ý",
      "Þ", "þ", "Þ", "à", "à", "À", "á", "á", "Á", "â", "â", "Â",
      "ã", "ã", "Ã", "ä", "ä", "Ä", "å", "å", "Å", "æ", "æ", "Æ",
      "ç", "ç", "Ç", "è", "è", "È", "é", "é", "É", "ê", "ê", "Ê",
      "ë", "ë", "Ë", "ì", "ì", "Ì", "í", "í", "Í", "î", "î", "Î",
      "ï", "ï", "Ï", "ð", "ð", "Ð", "ñ", "ñ", "Ñ", "ò", "ò", "Ò",
      "ó", "ó", "Ó", "ô", "ô", "Ô", "õ", "õ", "Õ", "ö", "ö", "Ö",
      "ø", "ø", "Ø", "ù", "ù", "Ù", "ú", "ú", "Ú", "û", "û", "Û",
      "ü", "ü", "Ü", "ý", "ý", "Ý", "þ", "þ", "Þ", "ÿ", "ÿ", "U+0178",
      "U+0100", "U+0101", "U+0100", "U+0101", "U+0101", "U+0100", "U+0102", "U+0103", "U+0102", "U+0103", "U+0103", "U+0102",
      "U+0104", "U+0105", "U+0104", "U+0105", "U+0105", "U+0104", "U+0106", "U+0107", "U+0106", "U+0107", "U+0107", "U+0106",
      "U+0108", "U+0109", "U+0108", "U+0109", "U+0109", "U+0108", "U+010A", "U+010B", "U+010A", "U+010B", "U+010B", "U+010A",
      "U+010C", "U+010D", "U+010C", "U+010D", "U+010D", "U+010C", "U+010E", "U+010F", "U+010E", "U+010F", "U+010F", "U+010E",
      "U+0110", "U+0111", "U+0110", "U+0111", "U+0111", "U+0110", "U+0112", "U+0113", "U+0112", "U+0113", "U+0113", "U+0112",
      "U+0114", "U+0115", "U+0114", "U+0115", "U+0115", "U+0114", "U+0116", "U+0117", "U+0116", "U+0117", "U+0117", "U+0116",
      "U+0118", "U+0119", "U+0118", "U+0119", "U+0119", "U+0118", "U+011A", "U+011B", "U+011A", "U+011B", "U+011B", "U+011A",
      "U+011C", "U+011D", "U+011C", "U+011D", "U+011D", "U+011C", "U+011E", "U+011F", "U+011E", "U+011F", "U+011F", "U+011E",
      "U+0120", "U+0121", "U+0120", "U+0121", "U+0121", "U+0120", "U+0122", "U+0123", "U+0122", "U+0123", "U+0123", "U+0122",
      "U+0124", "U+0125", "U+0124", "U+0125", "U+0125", "U+0124", "U+0126", "U+0127", "U+0126", "U+0127", "U+0127", "U+0126",
      "U+0128", "U+0129", "U+0128", "U+0129", "U+0129", "U+0128", "U+012A", "U+012B", "U+012A", "U+012B", "U+012B", "U+012A",
      "U+012C", "U+012D", "U+012C", "U+012D", "U+012D", "U+012C", "U+012E", "U+012F", "U+012E", "U+012F", "U+012F", "U+012E",
      "U+0131", "U+0131", "I", "U+0132", "U+0133", "U+0132", "U+0133", "U+0133", "U+0132", "U+0134", "U+0135", "U+0134",
      "U+0135", "U+0135", "U+0134", "U+0136", "U+0137", "U+0136", "U+0137", "U+0137", "U+0136", "U+0138", "U+0138", "U+0138",
      "U+0139", "U+013A", "U+0139", "U+013A", "U+013A", "U+0139", "U+013B", "U+013C", "U+013B", "U+013C", "U+013C", "U+013B",
      "U+013D", "U+013E", "U+013D", "U+013E", "U+013E", "U+013D", "U+013F", "U+0140", "U+013F", "U+0140", "U+0140", "U+013F",
      "U+0141", "U+0142", "U+0141", "U+0142", "U+0142", "U+0141", "U+0143", "U+0144", "U+0143", "U+0144", "U+0144", "U+0143",
      "U+0145", "U+0146", "U+0145", "U+0146", "U+0146", "U+0145", "U+0147", "U+0148", "U+0147", "U+0148", "U+0148", "U+0147",
      "U+014A", "U+014B", "U+014A", "U+014B", "U+014B", "U+014A", "U+014C", "U+014D", "U+014C", "U+014D", "U+014D", "U+014C",
      "U+014E", "U+014F", "U+014E", "U+014F", "U+014F", "U+014E", "U+0150", "U+0151", "U+0150", "U+0151", "U+0151", "U+0150",
      "U+0152", "U+0153", "U+0152", "U+0153", "U+0153", "U+0152", "U+0154", "U+0155", "U+0154", "U+0155", "U+0155", "U+0154",
      "U+0156", "U+0157", "U+0156", "U+0157", "U+0157", "U+0156", "U+0158", "U+0159", "U+0158", "U+0159", "U+0159", "U+0158",
      "U+015A", "U+015B", "U+015A", "U+015B", "U+015B", "U+015A", "U+015C", "U+015D", "U+015C", "U+015D", "U+015D", "U+015C",
      "U+015E", "U+015F", "U+015E", "U+015F", "U+015F", "U+015E", "U+0160", "U+0161", "U+0160", "U+0161", "U+0161", "U+0160",
      "U+0162", "U+0163", "U+0162", "U+0163", "U+0163", "U+0162", "U+0164", "U+0165", "U+0164", "U+0165", "U+0165", "U+0164",
      "U+0166", "U+0167", "U+0166", "U+0167", "U+0167", "U+0166", "U+0168", "U+0169", "U+0168", "U+0169", "U+0169", "U+0168",
      "U+016A", "U+016B", "U+016A", "U+016B", "U+016B", "U+016A", "U+016C", "U+016D", "U+016C", "U+016D", "U+016D", "U+016C",
      "U+016E", "U+016F", "U+016E", "U+016F", "U+016F", "U+016E", "U+0170", "U+0171", "U+0170", "U+0171", "U+0171", "U+0170",
      "U+0172", "U+0173", "U+0172", "U+0173", "U+0173", "U+0172", "U+0174", "U+0175", "U+0174", "U+0175", "U+0175", "U+0174",
      "U+0176", "U+0177", "U+0176", "U+0177", "U+0177", "U+0176", "U+0178", "ÿ", "U+0178", "U+0179", "U+017A", "U+0179",
      "U+017A", "U+017A", "U+0179", "U+017B", "U+017C", "U+017B", "U+017C", "U+017C", "U+017B", "U+017D", "U+017E", "U+017D",
      "U+017E", "U+017E", "U+017D", "U+017F", "U+017F", "S", "ƀ", "ƀ", "U+0243", "Ɓ", "U+0253", "Ɓ",
      "Ƃ", "ƃ", "Ƃ", "ƃ", "ƃ", "Ƃ", "Ƅ", "ƅ", "Ƅ", "ƅ", "ƅ", "Ƅ",
      "Ɔ", "U+0254", "Ɔ", "Ƈ", "ƈ", "Ƈ", "ƈ", "ƈ", "Ƈ", "Ɖ", "U+0256", "Ɖ",
      "Ɗ", "U+0257", "Ɗ", "Ƌ", "ƌ", "Ƌ", "ƌ", "ƌ", "Ƌ", "ƍ", "ƍ", "ƍ",
      "Ǝ", "ǝ", "Ǝ", "Ə", "U+0259", "Ə", "Ɛ", "U+025B", "Ɛ", "Ƒ", "ƒ", "Ƒ",
      "ƒ", "ƒ", "Ƒ", "Ɠ", "U+0260", "Ɠ", "Ɣ", "U+0263", "Ɣ", "ƕ", "ƕ", "Ƕ",
      "Ɩ", "U+0269", "Ɩ", "Ɨ", "U+0268", "Ɨ", "Ƙ", "ƙ", "Ƙ", "ƙ", "ƙ", "Ƙ",
      "ƚ", "ƚ", "U+023D", "ƛ", "ƛ", "ƛ", "Ɯ", "U+026F", "Ɯ", "Ɲ", "U+0272", "Ɲ",
      "ƞ", "ƞ", "U+0220", "Ɵ", "U+0275", "Ɵ", "Ơ", "ơ", "Ơ", "ơ", "ơ", "Ơ",
      "Ƣ", "ƣ", "Ƣ", "ƣ", "ƣ", "Ƣ", "Ƥ", "ƥ", "Ƥ", "ƥ", "ƥ", "Ƥ",
      "Ʀ", "ʀ", "Ʀ", "Ƨ", "ƨ", "Ƨ", "ƨ", "ƨ", "Ƨ", "Ʃ", "ʃ", "Ʃ",
      "ƪ", "ƪ", "ƪ", "ƫ", "ƫ", "ƫ", "Ƭ", "ƭ", "Ƭ", "ƭ", "ƭ", "Ƭ",
      "Ʈ", "ʈ", "Ʈ", "Ư", "ư", "Ư", "ư", "ư", "Ư", "Ʊ", "ʊ", "Ʊ",
      "Ʋ", "ʋ", "Ʋ", "Ƴ", "ƴ", "Ƴ", "ƴ", "ƴ", "Ƴ", "Ƶ", "ƶ", "Ƶ",
      "ƶ", "ƶ", "Ƶ", "Ʒ", "ʒ", "Ʒ", "Ƹ", "ƹ", "Ƹ", "ƹ", "ƹ", "Ƹ",
      "ƺ", "ƺ", "ƺ", "Ƽ", "ƽ", "Ƽ", "ƽ", "ƽ", "Ƽ", "ƾ", "ƾ", "ƾ",
      "ƿ", "ƿ", "Ƿ", "Ǆ", "ǆ", "ǅ", "ǅ", "ǆ", "ǅ", "ǆ", "ǆ", "ǅ",
      "Ǉ", "ǉ", "ǈ", "ǈ", "ǉ", "ǈ", "ǉ", "ǉ", "ǈ", "Ǌ", "ǌ", "ǋ",
      "ǋ", "ǌ", "ǋ", "ǌ", "ǌ", "ǋ", "Ǎ", "ǎ", "Ǎ", "ǎ", "ǎ", "Ǎ",
      "Ǐ", "ǐ", "Ǐ", "ǐ", "ǐ", "Ǐ", "Ǒ", "ǒ", "Ǒ", "ǒ", "ǒ", "Ǒ",
      "Ǔ", "ǔ", "Ǔ", "ǔ", "ǔ", "Ǔ", "Ǖ", "ǖ", "Ǖ", "ǖ", "ǖ", "Ǖ",
      "Ǘ", "ǘ", "Ǘ", "ǘ", "ǘ", "Ǘ", "Ǚ", "ǚ", "Ǚ", "ǚ", "ǚ", "Ǚ",
      "Ǜ", "ǜ", "Ǜ", "ǜ", "ǜ", "Ǜ", "ǝ", "ǝ", "Ǝ", "Ǟ", "ǟ", "Ǟ",
      "ǟ", "ǟ", "Ǟ", "Ǡ", "ǡ", "Ǡ", "ǡ", "ǡ", "Ǡ", "Ǣ", "ǣ", "Ǣ",
      "ǣ", "ǣ", "Ǣ", "Ǥ", "ǥ", "Ǥ", "ǥ", "ǥ", "Ǥ", "Ǧ", "ǧ", "Ǧ",
      "ǧ", "ǧ", "Ǧ", "Ǩ", "ǩ", "Ǩ", "ǩ", "ǩ", "Ǩ", "Ǫ", "ǫ", "Ǫ",
      "ǫ", "ǫ", "Ǫ", "Ǭ", "ǭ", "Ǭ", "ǭ", "ǭ", "Ǭ", "Ǯ", "ǯ", "Ǯ",
      "ǯ", "ǯ", "Ǯ", "Ǳ", "ǳ", "ǲ", "ǲ", "ǳ", "ǲ", "ǳ", "ǳ", "ǲ",
      "Ǵ", "ǵ", "Ǵ", "ǵ", "ǵ", "Ǵ", "Ƕ", "ƕ", "Ƕ", "Ƿ", "ƿ", "Ƿ",
      "Ǹ", "ǹ", "Ǹ", "ǹ", "ǹ", "Ǹ", "Ǻ", "ǻ", "Ǻ", "ǻ", "ǻ", "Ǻ",
      "Ǽ", "ǽ", "Ǽ", "ǽ", "ǽ", "Ǽ", "Ǿ", "ǿ", "Ǿ", "ǿ", "ǿ", "Ǿ",
      "U+0200", "U+0201", "U+0200", "U+0201", "U+0201", "U+0200", "U+0202", "U+0203", "U+0202", "U+0203", "U+0203", "U+0202",
      "U+0204", "U+0205", "U+0204", "U+0205", "U+0205", "U+0204", "U+0206", "U+0207", "U+0206", "U+0207", "U+0207", "U+0206",
      "U+0208", "U+0209", "U+0208", "U+0209", "U+0209", "U+0208", "U+020A", "U+020B", "U+020A", "U+020B", "U+020B", "U+020A",
      "U+020C", "U+020D", "U+020C", "U+020D", "U+020D", "U+020C", "U+020E", "U+020F", "U+020E", "U+020F", "U+020F", "U+020E",
      "U+0210", "U+0211", "U+0210", "U+0211", "U+0211", "U+0210", "U+0212", "U+0213", "U+0212", "U+0213", "U+0213", "U+0212",
      "U+0214", "U+0215", "U+0214", "U+0215", "U+0215", "U+0214", "U+0216", "U+0217", "U+0216", "U+0217", "U+0217", "U+0216",
      "U+0218", "U+0219", "U+0218", "U+0219", "U+0219", "U+0218", "U+021A", "U+021B", "U+021A", "U+021B", "U+021B", "U+021A",
      "U+021C", "U+021D", "U+021C", "U+021D", "U+021D", "U+021C", "U+021E", "U+021F", "U+021E", "U+021F", "U+021F", "U+021E",
      "U+0220", "ƞ", "U+0220", "U+0221", "U+0221", "U+0221", "U+0222", "U+0223", "U+0222", "U+0223", "U+0223", "U+0222",
      "U+0224", "U+0225", "U+0224", "U+0225", "U+0225", "U+0224", "U+0226", "U+0227", "U+0226", "U+0227", "U+0227", "U+0226",
      "U+0228", "U+0229", "U+0228", "U+0229", "U+0229", "U+0228", "U+022A", "U+022B", "U+022A", "U+022B", "U+022B", "U+022A",
      "U+022C", "U+022D", "U+022C", "U+022D", "U+022D", "U+022C", "U+022E", "U+022F", "U+022E", "U+022F", "U+022F", "U+022E",
      "U+0230", "U+0231", "U+0230", "U+0231", "U+0231", "U+0230", "U+0232", "U+0233", "U+0232", "U+0233", "U+0233", "U+0232",
      "U+0234", "U+0234", "U+0234", "U+0235", "U+0235", "U+0235", "U+0236", "U+0236", "U+0236", "U+0237", "U+0237", "U+0237",
      "U+0238", "U+0238", "U+0238", "U+0239", "U+0239", "U+0239", "U+023A", "U+2C65", "U+023A", "U+023B", "U+023C", "U+023B",
      "U+023C", "U+023C", "U+023B", "U+023D", "ƚ", "U+023D", "U+023E", "U+2C66", "U+023E", "U+023F", "U+023F", "U+2C7E",
      "U+0240", "U+0240", "U+2C7F", "U+0241", "U+0242", "U+0241", "U+0242", "U+0242", "U+0241", "U+0243", "ƀ", "U+0243",
      "U+0244", "ʉ", "U+0244", "U+0245", "ʌ", "U+0245", "U+0246", "U+0247", "U+0246", "U+0247", "U+0247", "U+0246",
      "U+0248", "U+0249", "U+0248", "U+0249", "U+0249", "U+0248", "U+024A", "U+024B", "U+024A", "U+024B", "U+024B", "U+024A",
      "U+024C", "U+024D", "U+024C", "U+024D", "U+024D", "U+024C", "U+024E", "U+024F", "U+024E", "U+024F", "U+024F", "U+024E",
      "U+0250", "U+0250", "U+2C6F", "U+0251", "U+0251", "U+2C6D", "U+0252", "U+0252", "U+2C70", "U+0253", "U+0253", "Ɓ",
      "U+0254", "U+0254", "Ɔ", "U+0255", "U+0255", "U+0255", "U+0256", "U+0256", "Ɖ", "U+0257", "U+0257", "Ɗ",
      "U+0258", "U+0258", "U+0258", "U+0259", "U+0259", "Ə", "U+025A", "U+025A", "U+025A", "U+025B", "U+025B", "Ɛ",
      "U+025C", "U+025C", "U+A7AB", "U+025D", "U+025D", "U+025D", "U+025E", "U+025E", "U+025E", "U+025F", "U+025F", "U+025F",
      "U+0260", "U+0260", "Ɠ", "U+0261", "U+0261", "U+A7AC", "U+0262", "U+0262", "U+0262", "U+0263", "U+0263", "Ɣ",
      "U+0264", "U+0264", "U+0264", "U+0265", "U+0265", "U+A78D", "U+0266", "U+0266", "U+A7AA", "U+0267", "U+0267", "U+0267",
      "U+0268", "U+0268", "Ɨ", "U+0269", "U+0269", "Ɩ", "U+026A", "U+026A", "U+A7AE", "U+026B", "U+026B", "U+2C62",
      "U+026C", "U+026C", "U+A7AD", "U+026D", "U+026D", "U+026D", "U+026E", "U+026E", "U+026E", "U+026F", "U+026F", "Ɯ",
      "U+0270", "U+0270", "U+0270", "U+0271", "U+0271", "U+2C6E", "U+0272", "U+0272", "Ɲ", "U+0273", "U+0273", "U+0273",
      "U+0274", "U+0274", "U+0274", "U+0275", "U+0275", "Ɵ", "U+0276", "U+0276", "U+0276", "U+0277", "U+0277", "U+0277",
      "U+0278", "U+0278", "U+0278", "U+0279", "U+0279", "U+0279", "U+027A", "U+027A", "U+027A", "U+027B", "U+027B", "U+027B",
      "U+027C", "U+027C", "U+027C", "U+027D", "U+027D", "U+2C64", "U+027E", "U+027E", "U+027E", "U+027F", "U+027F", "U+027F",
      "ʀ", "ʀ", "Ʀ", "ʁ", "ʁ", "ʁ", "ʂ", "ʂ", "U+A7C5", "ʃ", "ʃ", "Ʃ",
      "ʄ", "ʄ", "ʄ", "ʅ", "ʅ", "ʅ", "ʆ", "ʆ", "ʆ", "ʇ", "ʇ", "U+A7B1",
      "ʈ", "ʈ", "Ʈ", "ʉ", "ʉ", "U+0244", "ʊ", "ʊ", "Ʊ", "ʋ", "ʋ", "Ʋ",
      "ʌ", "ʌ", "U+0245", "ʍ", "ʍ", "ʍ", "ʎ", "ʎ", "ʎ", "ʏ", "ʏ", "ʏ",
      "ʐ", "ʐ", "ʐ", "ʑ", "ʑ", "ʑ", "ʒ", "ʒ", "Ʒ", "ʓ", "ʓ", "ʓ",
      "ʕ", "ʕ", "ʕ", "ʖ", "ʖ", "ʖ", "ʗ", "ʗ", "ʗ", "ʘ", "ʘ", "ʘ",
      "ʙ", "ʙ", "ʙ", "ʚ", "ʚ", "ʚ", "ʛ", "ʛ", "ʛ", "ʜ", "ʜ", "ʜ",
      "ʝ", "ʝ", "U+A7B2", "ʞ", "ʞ", "U+A7B0", "ʟ", "ʟ", "ʟ", "ʠ", "ʠ", "ʠ",
      "ʡ", "ʡ", "ʡ", "ʢ", "ʢ", "ʢ", "ʣ", "ʣ", "ʣ", "ʤ", "ʤ", "ʤ",
      "ʥ", "ʥ", "ʥ", "ʦ", "ʦ", "ʦ", "ʧ", "ʧ", "ʧ", "ʨ", "ʨ", "ʨ",
      "ʩ", "ʩ", "ʩ", "ʪ", "ʪ", "ʪ", "ʫ", "ʫ", "ʫ", "ʬ", "ʬ", "ʬ",
      "ʭ", "ʭ", "ʭ", "ʮ", "ʮ", "ʮ", "ʯ", "ʯ", "ʯ", "ʰ", "ʰ", "ʰ",
      "ʱ", "ʱ", "ʱ", "ʲ", "ʲ", "ʲ", "ʳ", "ʳ", "ʳ", "ʴ", "ʴ", "ʴ",
      "ʵ", "ʵ", "ʵ", "ʶ", "ʶ", "ʶ", "ʷ", "ʷ", "ʷ", "ʸ", "ʸ", "ʸ",
      "ˀ", "ˀ", "ˀ", "ˁ", "ˁ", "ˁ", "ˠ", "ˠ", "ˠ", "ˡ", "ˡ", "ˡ",
      "ˢ", "ˢ", "ˢ", "ˣ", "ˣ", "ˣ", "ˤ", "ˤ", "ˤ", "U+0345", "U+0345", "Ι",
      "U+0370", "U+0371", "U+0370", "U+0371", "U+0371", "U+0370", "U+0372", "U+0373", "U+0372", "U+0373", "U+0373", "U+0372",
      "U+0376", "U+0377", "U+0376", "U+0377", "U+0377", "U+0376", "U+037A", "U+037A", "U+037A", "U+037B", "U+037B", "Ͻ",
      "U+037C", "U+037C", "Ͼ", "U+037D", "U+037D", "Ͽ", "U+037F", "ϳ", "U+037F", "Ά", "ά", "Ά",
      "Έ", "έ", "Έ", "Ή", "ή", "Ή", "Ί", "ί", "Ί", "Ό", "ό", "Ό",
      "Ύ", "ύ", "Ύ", "Ώ", "ώ", "Ώ", "Α", "α", "Α", "Β", "β", "Β",
      "Γ", "γ", "Γ", "Δ", "δ", "Δ", "Ε", "ε", "Ε", "Ζ", "ζ", "Ζ",
      "Η", "η", "Η", "Θ", "θ", "Θ", "Ι", "ι", "Ι", "Κ", "κ", "Κ",
      "Λ", "λ", "Λ", "Μ", "μ", "Μ", "Ν", "ν", "Ν", "Ξ", "ξ", "Ξ",
      "Ο", "ο", "Ο", "Π", "π", "Π", "Ρ", "ρ", "Ρ", "Σ", "σ", "Σ",
      "Τ", "τ", "Τ", "Υ", "υ", "Υ", "Φ", "φ", "Φ", "Χ", "χ", "Χ",
      "Ψ", "ψ", "Ψ", "Ω", "ω", "Ω", "Ϊ", "ϊ", "Ϊ", "Ϋ", "ϋ", "Ϋ",
      "ά", "ά", "Ά", "έ", "έ", "Έ", "ή", "ή", "Ή", "ί", "ί", "Ί",
      "α", "α", "Α", "β", "β", "Β", "γ", "γ", "Γ", "δ", "δ", "Δ",
      "ε", "ε", "Ε", "ζ", "ζ", "Ζ", "η", "η", "Η", "θ", "θ", "Θ",
      "ι", "ι", "Ι", "κ", "κ", "Κ", "λ", "λ", "Λ", "μ", "μ", "Μ",
      "ν", "ν", "Ν", "ξ", "ξ", "Ξ", "ο", "ο", "Ο", "π", "π", "Π",
      "ρ", "ρ", "Ρ", "ς", "ς", "Σ", "σ", "σ", "Σ", "τ", "τ", "Τ",
      "υ", "υ", "Υ", "φ", "φ", "Φ", "χ", "χ", "Χ", "ψ", "ψ", "Ψ",
      "ω", "ω", "Ω", "ϊ", "ϊ", "Ϊ", "ϋ", "ϋ", "Ϋ", "ό", "ό", "Ό",
      "ύ", "ύ", "Ύ", "ώ", "ώ", "Ώ", "Ϗ", "ϗ", "Ϗ", "ϐ", "ϐ", "Β",
      "ϑ", "ϑ", "Θ", "ϒ", "ϒ", "ϒ", "ϓ", "ϓ", "ϓ", "ϔ", "ϔ", "ϔ",
      "ϕ", "ϕ", "Φ", "ϖ", "ϖ", "Π", "ϗ", "ϗ", "Ϗ", "Ϙ", "ϙ", "Ϙ",
      "ϙ", "ϙ", "Ϙ", "Ϛ", "ϛ", "Ϛ", "ϛ", "ϛ", "Ϛ", "Ϝ", "ϝ", "Ϝ",
      "ϝ", "ϝ", "Ϝ", "Ϟ", "ϟ", "Ϟ", "ϟ", "ϟ", "Ϟ", "Ϡ", "ϡ", "Ϡ",
      "ϡ", "ϡ", "Ϡ", "Ϣ", "ϣ", "Ϣ", "ϣ", "ϣ", "Ϣ", "Ϥ", "ϥ", "Ϥ",
      "ϥ", "ϥ", "Ϥ", "Ϧ", "ϧ", "Ϧ", "ϧ", "ϧ", "Ϧ", "Ϩ", "ϩ", "Ϩ",
      "ϩ", "ϩ", "Ϩ", "Ϫ", "ϫ", "Ϫ", "ϫ", "ϫ", "Ϫ", "Ϭ", "ϭ", "Ϭ",
      "ϭ", "ϭ", "Ϭ", "Ϯ", "ϯ", "Ϯ", "ϯ", "ϯ", "Ϯ", "ϰ", "ϰ", "Κ",
      "ϱ", "ϱ", "Ρ", "ϲ", "ϲ", "Ϲ", "ϳ", "ϳ", "U+037F", "ϴ", "θ", "ϴ",
      "ϵ", "ϵ", "Ε", "Ϸ", "ϸ", "Ϸ", "ϸ", "ϸ", "Ϸ", "Ϲ", "ϲ", "Ϲ",
      "Ϻ", "ϻ", "Ϻ", "ϻ", "ϻ", "Ϻ", "ϼ", "ϼ", "ϼ", "Ͻ", "U+037B", "Ͻ",
      "Ͼ", "U+037C", "Ͼ", "Ͽ", "U+037D", "Ͽ", "U+0400", "U+0450", "U+0400", "U+0401", "U+0451", "U+0401",
      "U+0402", "U+0452", "U+0402", "U+0403", "U+0453", "U+0403", "U+0404", "U+0454", "U+0404", "U+0405", "U+0455", "U+0405",
      "U+0406", "U+0456", "U+0406", "U+0407", "U+0457", "U+0407", "U+0408", "U+0458", "U+0408", "U+0409", "U+0459", "U+0409",
      "U+040A", "U+045A", "U+040A", "U+040B", "U+045B", "U+040B", "U+040C", "U+045C", "U+040C", "U+040D", "U+045D", "U+040D",
      "U+040E", "U+045E", "U+040E", "U+040F", "U+045F", "U+040F", "U+0410", "U+0430", "U+0410", "U+0411", "U+0431", "U+0411",
      "U+0412", "U+0432", "U+0412", "U+0413", "U+0433", "U+0413", "U+0414", "U+0434", "U+0414", "U+0415", "U+0435", "U+0415",
      "U+0416", "U+0436", "U+0416", "U+0417", "U+0437", "U+0417", "U+0418", "U+0438", "U+0418", "U+0419", "U+0439", "U+0419",
      "U+041A", "U+043A", "U+041A", "U+041B", "U+043B", "U+041B", "U+041C", "U+043C", "U+041C", "U+041D", "U+043D", "U+041D",
      "U+041E", "U+043E", "U+041E", "U+041F", "U+043F", "U+041F", "U+0420", "U+0440", "U+0420", "U+0421", "U+0441", "U+0421",
      "U+0422", "U+0442", "U+0422", "U+0423", "U+0443", "U+0423", "U+0424", "U+0444", "U+0424", "U+0425", "U+0445", "U+0425",
      "U+0426", "U+0446", "U+0426", "U+0427", "U+0447", "U+0427", "U+0428", "U+0448", "U+0428", "U+0429", "U+0449", "U+0429",
      "U+042A", "U+044A", "U+042A", "U+042B", "U+044B", "U+042B", "U+042C", "U+044C", "U+042C", "U+042D", "U+044D", "U+042D",
      "U+042E", "U+044E", "U+042E", "U+042F", "U+044F", "U+042F", "U+0430", "U+0430", "U+0410", "U+0431", "U+0431", "U+0411",
      "U+0432", "U+0432", "U+0412", "U+0433", "U+0433", "U+0413", "U+0434", "U+0434", "U+0414", "U+0435", "U+0435", "U+0415",
      "U+0436", "U+0436", "U+0416", "U+0437", "U+0437", "U+0417", "U+0438", "U+0438", "U+0418", "U+0439", "U+0439", "U+0419",
      "U+043A", "U+043A", "U+041A", "U+043B", "U+043B", "U+041B", "U+043C", "U+043C", "U+041C", "U+043D", "U+043D", "U+041D",
      "U+043E", "U+043E", "U+041E", "U+043F", "U+043F", "U+041F", "U+0440", "U+0440", "U+0420", "U+0441", "U+0441", "U+0421",
      "U+0442", "U+0442", "U+0422", "U+0443", "U+0443", "U+0423", "U+0444", "U+0444", "U+0424", "U+0445", "U+0445", "U+0425",
      "U+0446", "U+0446", "U+0426", "U+0447", "U+0447", "U+0427", "U+0448", "U+0448", "U+0428", "U+0449", "U+0449", "U+0429",
      "U+044A", "U+044A", "U+042A", "U+044B", "U+044B", "U+042B", "U+044C", "U+044C", "U+042C", "U+044D", "U+044D", "U+042D",
      "U+044E", "U+044E", "U+042E", "U+044F", "U+044F", "U+042F", "U+0450", "U+0450", "U+0400", "U+0451", "U+0451", "U+0401",
      "U+0452", "U+0452", "U+0402", "U+0453", "U+0453", "U+0403", "U+0454", "U+0454", "U+0404", "U+0455", "U+0455", "U+0405",
      "U+0456", "U+0456", "U+0406", "U+0457", "U+0457", "U+0407", "U+0458", "U+0458", "U+0408", "U+0459", "U+0459", "U+0409",
      "U+045A", "U+045A", "U+040A", "U+045B", "U+045B", "U+040B", "U+045C", "U+045C", "U+040C", "U+045D", "U+045D", "U+040D",
      "U+045E", "U+045E", "U+040E", "U+045F", "U+045F", "U+040F", "U+0460", "U+0461", "U+0460", "U+0461", "U+0461", "U+0460",
      "U+0462", "U+0463", "U+0462", "U+0463", "U+0463", "U+0462", "U+0464", "U+0465", "U+0464", "U+0465", "U+0465", "U+0464",
      "U+0466", "U+0467", "U+0466", "U+0467", "U+0467", "U+0466", "U+0468", "U+0469", "U+0468", "U+0469", "U+0469", "U+0468",
      "U+046A", "U+046B", "U+046A", "U+046B", "U+046B", "U+046A", "U+046C", "U+046D", "U+046C", "U+046D", "U+046D", "U+046C",
      "U+046E", "U+046F", "U+046E", "U+046F", "U+046F", "U+046E", "U+0470", "U+0471", "U+0470", "U+0471", "U+0471", "U+0470",
      "U+0472", "U+0473", "U+0472", "U+0473", "U+0473", "U+0472", "U+0474", "U+0475", "U+0474", "U+0475", "U+0475", "U+0474",
      "U+0476", "U+0477", "U+0476", "U+0477", "U+0477", "U+0476", "U+0478", "U+0479", "U+0478", "U+0479", "U+0479", "U+0478",
      "U+047A", "U+047B", "U+047A", "U+047B", "U+047B", "U+047A", "U+047C", "U+047D", "U+047C", "U+047D", "U+047D", "U+047C",
      "U+047E", "U+047F", "U+047E", "U+047F", "U+047F", "U+047E", "Ҁ", "ҁ", "Ҁ", "ҁ", "ҁ", "Ҁ",
      "Ҋ", "ҋ", "Ҋ", "ҋ", "ҋ", "Ҋ", "Ҍ", "ҍ", "Ҍ", "ҍ", "ҍ", "Ҍ",
      "Ҏ", "ҏ", "Ҏ", "ҏ", "ҏ", "Ҏ", "Ґ", "ґ", "Ґ", "ґ", "ґ", "Ґ",
      "Ғ", "ғ", "Ғ", "ғ", "ғ", "Ғ", "Ҕ", "ҕ", "Ҕ", "ҕ", "ҕ", "Ҕ",
      "Җ", "җ", "Җ", "җ", "җ", "Җ", "Ҙ", "ҙ", "Ҙ", "ҙ", "ҙ", "Ҙ",
      "Қ", "қ", "Қ", "қ", "қ", "Қ", "Ҝ", "ҝ", "Ҝ", "ҝ", "ҝ", "Ҝ",
      "Ҟ", "ҟ", "Ҟ", "ҟ", "ҟ", "Ҟ", "Ҡ", "ҡ", "Ҡ", "ҡ", "ҡ", "Ҡ",
      "Ң", "ң", "Ң", "ң", "ң", "Ң", "Ҥ", "ҥ", "Ҥ", "ҥ", "ҥ", "Ҥ",
      "Ҧ", "ҧ", "Ҧ", "ҧ", "ҧ", "Ҧ", "Ҩ", "ҩ", "Ҩ", "ҩ", "ҩ", "Ҩ",
      "Ҫ", "ҫ", "Ҫ", "ҫ", "ҫ", "Ҫ", "Ҭ", "ҭ", "Ҭ", "ҭ", "ҭ", "Ҭ",
      "Ү", "ү", "Ү", "ү", "ү", "Ү", "Ұ", "ұ", "Ұ", "ұ", "ұ", "Ұ",
      "Ҳ", "ҳ", "Ҳ", "ҳ", "ҳ", "Ҳ", "Ҵ", "ҵ", "Ҵ", "ҵ", "ҵ", "Ҵ",
      "Ҷ", "ҷ", "Ҷ", "ҷ", "ҷ", "Ҷ", "Ҹ", "ҹ", "Ҹ", "ҹ", "ҹ", "Ҹ",
      "Һ", "һ", "Һ", "һ", "һ", "Һ", "Ҽ", "ҽ", "Ҽ", "ҽ", "ҽ", "Ҽ",
      "Ҿ", "ҿ", "Ҿ", "ҿ", "ҿ", "Ҿ", "Ӏ", "ӏ", "Ӏ", "Ӂ", "ӂ", "Ӂ",
      "ӂ", "ӂ", "Ӂ", "Ӄ", "ӄ", "Ӄ", "ӄ", "ӄ", "Ӄ", "Ӆ", "ӆ", "Ӆ",
      "ӆ", "ӆ", "Ӆ", "Ӈ", "ӈ", "Ӈ", "ӈ", "ӈ", "Ӈ", "Ӊ", "ӊ", "Ӊ",
      "ӊ", "ӊ", "Ӊ", "Ӌ", "ӌ", "Ӌ", "ӌ", "ӌ", "Ӌ", "Ӎ", "ӎ", "Ӎ",
      "ӎ", "ӎ", "Ӎ", "ӏ", "ӏ", "Ӏ", "Ӑ", "ӑ", "Ӑ", "ӑ", "ӑ", "Ӑ",
      "Ӓ", "ӓ", "Ӓ", "ӓ", "ӓ", "Ӓ", "Ӕ", "ӕ", "Ӕ", "ӕ", "ӕ", "Ӕ",
      "Ӗ", "ӗ", "Ӗ", "ӗ", "ӗ", "Ӗ", "Ә", "ә", "Ә", "ә", "ә", "Ә",
      "Ӛ", "ӛ", "Ӛ", "ӛ", "ӛ", "Ӛ", "Ӝ", "ӝ", "Ӝ", "ӝ", "ӝ", "Ӝ",
      "Ӟ", "ӟ", "Ӟ", "ӟ", "ӟ", "Ӟ", "Ӡ", "ӡ", "Ӡ", "ӡ", "ӡ", "Ӡ",
      "Ӣ", "ӣ", "Ӣ", "ӣ", "ӣ", "Ӣ", "Ӥ", "ӥ", "Ӥ", "ӥ", "ӥ", "Ӥ",
      "Ӧ", "ӧ", "Ӧ", "ӧ", "ӧ", "Ӧ", "Ө", "ө", "Ө", "ө", "ө", "Ө",
      "Ӫ", "ӫ", "Ӫ", "ӫ", "ӫ", "Ӫ", "Ӭ", "ӭ", "Ӭ", "ӭ", "ӭ", "Ӭ",
      "Ӯ", "ӯ", "Ӯ", "ӯ", "ӯ", "Ӯ", "Ӱ", "ӱ", "Ӱ", "ӱ", "ӱ", "Ӱ",
      "Ӳ", "ӳ", "Ӳ", "ӳ", "ӳ", "Ӳ", "Ӵ", "ӵ", "Ӵ", "ӵ", "ӵ", "Ӵ",
      "Ӷ", "ӷ", "Ӷ", "ӷ", "ӷ", "Ӷ", "Ӹ", "ӹ", "Ӹ", "ӹ", "ӹ", "Ӹ",
      "Ӻ", "ӻ", "Ӻ", "ӻ", "ӻ", "Ӻ", "Ӽ", "ӽ", "Ӽ", "ӽ", "ӽ", "Ӽ",
      "Ӿ", "ӿ", "Ӿ", "ӿ", "ӿ", "Ӿ", "U+0500", "U+0501", "U+0500", "U+0501", "U+0501", "U+0500",
      "U+0502", "U+0503", "U+0502", "U+0503", "U+0503", "U+0502", "U+0504", "U+0505", "U+0504", "U+0505", "U+0505", "U+0504",
      "U+0506", "U+0507", "U+0506", "U+0507", "U+0507", "U+0506", "U+0508", "U+0509", "U+0508", "U+0509", "U+0509", "U+0508",
      "U+050A", "U+050B", "U+050A", "U+050B", "U+050B", "U+050A", "U+050C", "U+050D", "U+050C", "U+050D", "U+050D", "U+050C",
      "U+050E", "U+050F", "U+050E", "U+050F", "U+050F", "U+050E", "U+0510", "U+0511", "U+0510", "U+0511", "U+0511", "U+0510",
      "U+0512", "U+0513", "U+0512", "U+0513", "U+0513", "U+0512", "U+0514", "U+0515", "U+0514", "U+0515", "U+0515", "U+0514",
      "U+0516", "U+0517", "U+0516", "U+0517", "U+0517", "U+0516", "U+0518", "U+0519", "U+0518", "U+0519", "U+0519", "U+0518",
      "U+051A", "U+051B", "U+051A", "U+051B", "U+051B", "U+051A", "U+051C", "U+051D", "U+051C", "U+051D", "U+051D", "U+051C",
      "U+051E", "U+051F", "U+051E", "U+051F", "U+051F", "U+051E", "U+0520", "U+0521", "U+0520", "U+0521", "U+0521", "U+0520",
      "U+0522", "U+0523", "U+0522", "U+0523", "U+0523", "U+0522", "U+0524", "U+0525", "U+0524", "U+0525", "U+0525", "U+0524",
      "U+0526", "U+0527", "U+0526", "U+0527", "U+0527", "U+0526", "U+0528", "U+0529", "U+0528", "U+0529", "U+0529", "U+0528",
      "U+052A", "U+052B", "U+052A", "U+052B", "U+052B", "U+052A", "U+052C", "U+052D", "U+052C", "U+052D", "U+052D", "U+052C",
      "U+052E", "U+052F", "U+052E", "U+052F", "U+052F", "U+052E", "U+0531", "U+0561", "U+0531", "U+0532", "U+0562", "U+0532",
      "U+0533", "U+0563", "U+0533", "U+0534", "U+0564", "U+0534", "U+0535", "U+0565", "U+0535", "U+0536", "U+0566", "U+0536",
      "U+0537", "U+0567", "U+0537", "U+0538", "U+0568", "U+0538", "U+0539", "U+0569", "U+0539", "U+053A", "U+056A", "U+053A",
      "U+053B", "U+056B", "U+053B", "U+053C", "U+056C", "U+053C", "U+053D", "U+056D", "U+053D", "U+053E", "U+056E", "U+053E",
      "U+053F", "U+056F", "U+053F", "U+0540", "U+0570", "U+0540", "U+0541", "U+0571", "U+0541", "U+0542", "U+0572", "U+0542",
      "U+0543", "U+0573", "U+0543", "U+0544", "U+0574", "U+0544", "U+0545", "U+0575", "U+0545", "U+0546", "U+0576", "U+0546",
      "U+0547", "U+0577", "U+0547", "U+0548", "U+0578", "U+0548", "U+0549", "U+0579", "U+0549", "U+054A", "U+057A", "U+054A",
      "U+054B", "U+057B", "U+054B", "U+054C", "U+057C", "U+054C", "U+054D", "U+057D", "U+054D", "U+054E", "U+057E", "U+054E",
      "U+054F", "U+057F", "U+054F", "U+0550", "ր", "U+0550", "U+0551", "ց", "U+0551", "U+0552", "ւ", "U+0552",
      "U+0553", "փ", "U+0553", "U+0554", "ք", "U+0554", "U+0555", "օ", "U+0555", "U+0556", "ֆ", "U+0556",
      "U+0560", "U+0560", "U+0560", "U+0561", "U+0561", "U+0531", "U+0562", "U+0562", "U+0532", "U+0563", "U+0563", "U+0533",
      "U+0564", "U+0564", "U+0534", "U+0565", "U+0565", "U+0535", "U+0566", "U+0566", "U+0536", "U+0567", "U+0567", "U+0537",
      "U+0568", "U+0568", "U+0538", "U+0569", "U+0569", "U+0539", "U+056A", "U+056A", "U+053A", "U+056B", "U+056B", "U+053B",
      "U+056C", "U+056C", "U+053C", "U+056D", "U+056D", "U+053D", "U+056E", "U+056E", "U+053E", "U+056F", "U+056F", "U+053F",
      "U+0570", "U+0570", "U+0540", "U+0571", "U+0571", "U+0541", "U+0572", "U+0572", "U+0542", "U+0573", "U+0573", "U+0543",
      "U+0574", "U+0574", "U+0544", "U+0575", "U+0575", "U+0545", "U+0576", "U+0576", "U+0546", "U+0577", "U+0577", "U+0547",
      "U+0578", "U+0578", "U+0548", "U+0579", "U+0579", "U+0549", "U+057A", "U+057A", "U+054A", "U+057B", "U+057B", "U+054B",
      "U+057C", "U+057C", "U+054C", "U+057D", "U+057D", "U+054D", "U+057E", "U+057E", "U+054E", "U+057F", "U+057F", "U+054F",
      "ր", "ր", "U+0550", "ց", "ց", "U+0551", "ւ", "ւ", "U+0552", "փ", "փ", "U+0553",
      "ք", "ք", "U+0554", "օ", "օ", "U+0555", "ֆ", "ֆ", "U+0556", "ֈ", "ֈ", "ֈ",
      "Ⴀ", "U+2D00", "Ⴀ", "Ⴁ", "U+2D01", "Ⴁ", "Ⴂ", "U+2D02", "Ⴂ", "Ⴃ", "U+2D03", "Ⴃ",
      "Ⴄ", "U+2D04", "Ⴄ", "Ⴅ", "U+2D05", "Ⴅ", "Ⴆ", "U+2D06", "Ⴆ", "Ⴇ", "U+2D07", "Ⴇ",
      "Ⴈ", "U+2D08", "Ⴈ", "Ⴉ", "U+2D09", "Ⴉ", "Ⴊ", "U+2D0A", "Ⴊ", "Ⴋ", "U+2D0B", "Ⴋ",
      "Ⴌ", "U+2D0C", "Ⴌ", "Ⴍ", "U+2D0D", "Ⴍ", "Ⴎ", "U+2D0E", "Ⴎ", "Ⴏ", "U+2D0F", "Ⴏ",
      "Ⴐ", "U+2D10", "Ⴐ", "Ⴑ", "U+2D11", "Ⴑ", "Ⴒ", "U+2D12", "Ⴒ", "Ⴓ", "U+2D13", "Ⴓ",
      "Ⴔ", "U+2D14", "Ⴔ", "Ⴕ", "U+2D15", "Ⴕ", "Ⴖ", "U+2D16", "Ⴖ", "Ⴗ", "U+2D17", "Ⴗ",
      "Ⴘ", "U+2D18", "Ⴘ", "Ⴙ", "U+2D19", "Ⴙ", "Ⴚ", "U+2D1A", "Ⴚ", "Ⴛ", "U+2D1B", "Ⴛ",
      "Ⴜ", "U+2D1C", "Ⴜ", "Ⴝ", "U+2D1D", "Ⴝ", "Ⴞ", "U+2D1E", "Ⴞ", "Ⴟ", "U+2D1F", "Ⴟ",
      "Ⴠ", "U+2D20", "Ⴠ", "Ⴡ", "U+2D21", "Ⴡ", "Ⴢ", "U+2D22", "Ⴢ", "Ⴣ", "U+2D23", "Ⴣ",
      "Ⴤ", "U+2D24", "Ⴤ", "Ⴥ", "U+2D25", "Ⴥ", "Ⴧ", "U+2D27", "Ⴧ", "Ⴭ", "U+2D2D", "Ⴭ",
      "ა", "ა", "ა", "ბ", "ბ", "ბ", "გ", "გ", "გ", "დ", "დ", "დ",
      "ე", "ე", "ე", "ვ", "ვ", "ვ", "ზ", "ზ", "ზ", "თ", "თ", "თ",
      "ი", "ი", "ი", "კ", "კ", "კ", "ლ", "ლ", "ლ", "მ", "მ", "მ",
      "ნ", "ნ", "ნ", "ო", "ო", "ო", "პ", "პ", "პ", "ჟ", "ჟ", "ჟ",
      "რ", "რ", "რ", "ს", "ს", "ს", "ტ", "ტ", "ტ", "უ", "უ", "უ",
      "ფ", "ფ", "ფ", "ქ", "ქ", "ქ", "ღ", "ღ", "ღ", "ყ", "ყ", "ყ",
      "შ", "შ", "შ", "ჩ", "ჩ", "ჩ", "ც", "ც", "ც", "ძ", "ძ", "ძ",
      "წ", "წ", "წ", "ჭ", "ჭ", "ჭ", "ხ", "ხ", "ხ", "ჯ", "ჯ", "ჯ",
      "ჰ", "ჰ", "ჰ", "ჱ", "ჱ", "ჱ", "ჲ", "ჲ", "ჲ", "ჳ", "ჳ", "ჳ",
      "ჴ", "ჴ", "ჴ", "ჵ", "ჵ", "ჵ", "ჶ", "ჶ", "ჶ", "ჷ", "ჷ", "ჷ",
      "ჸ", "ჸ", "ჸ", "ჹ", "ჹ", "ჹ", "ჺ", "ჺ", "ჺ", "ჽ", "ჽ", "ჽ",
      "ჾ", "ჾ", "ჾ", "ჿ", "ჿ", "ჿ", "Ꭰ", "U+AB70", "Ꭰ", "Ꭱ", "U+AB71", "Ꭱ",
      "Ꭲ", "U+AB72", "Ꭲ", "Ꭳ", "U+AB73", "Ꭳ", "Ꭴ", "U+AB74", "Ꭴ", "Ꭵ", "U+AB75", "Ꭵ",
      "Ꭶ", "U+AB76", "Ꭶ", "Ꭷ", "U+AB77", "Ꭷ", "Ꭸ", "U+AB78", "Ꭸ", "Ꭹ", "U+AB79", "Ꭹ",
      "Ꭺ", "U+AB7A", "Ꭺ", "Ꭻ", "U+AB7B", "Ꭻ", "Ꭼ", "U+AB7C", "Ꭼ", "Ꭽ", "U+AB7D", "Ꭽ",
      "Ꭾ", "U+AB7E", "Ꭾ", "Ꭿ", "U+AB7F", "Ꭿ", "Ꮀ", "U+AB80", "Ꮀ", "Ꮁ", "U+AB81", "Ꮁ",
      "Ꮂ", "U+AB82", "Ꮂ", "Ꮃ", "U+AB83", "Ꮃ", "Ꮄ", "U+AB84", "Ꮄ", "Ꮅ", "U+AB85", "Ꮅ",
      "Ꮆ", "U+AB86", "Ꮆ", "Ꮇ", "U+AB87", "Ꮇ", "Ꮈ", "U+AB88", "Ꮈ", "Ꮉ", "U+AB89", "Ꮉ",
      "Ꮊ", "U+AB8A", "Ꮊ", "Ꮋ", "U+AB8B", "Ꮋ", "Ꮌ", "U+AB8C", "Ꮌ", "Ꮍ", "U+AB8D", "Ꮍ",
      "Ꮎ", "U+AB8E", "Ꮎ", "Ꮏ", "U+AB8F", "Ꮏ", "Ꮐ", "U+AB90", "Ꮐ", "Ꮑ", "U+AB91", "Ꮑ",
      "Ꮒ", "U+AB92", "Ꮒ", "Ꮓ", "U+AB93", "Ꮓ", "Ꮔ", "U+AB94", "Ꮔ", "Ꮕ", "U+AB95", "Ꮕ",
      "Ꮖ", "U+AB96", "Ꮖ", "Ꮗ", "U+AB97", "Ꮗ", "Ꮘ", "U+AB98", "Ꮘ", "Ꮙ", "U+AB99", "Ꮙ",
      "Ꮚ", "U+AB9A", "Ꮚ", "Ꮛ", "U+AB9B", "Ꮛ", "Ꮜ", "U+AB9C", "Ꮜ", "Ꮝ", "U+AB9D", "Ꮝ",
      "Ꮞ", "U+AB9E", "Ꮞ", "Ꮟ", "U+AB9F", "Ꮟ", "Ꮠ", "U+ABA0", "Ꮠ", "Ꮡ", "U+ABA1", "Ꮡ",
      "Ꮢ", "U+ABA2", "Ꮢ", "Ꮣ", "U+ABA3", "Ꮣ", "Ꮤ", "U+ABA4", "Ꮤ", "Ꮥ", "U+ABA5", "Ꮥ",
      "Ꮦ", "U+ABA6", "Ꮦ", "Ꮧ", "U+ABA7", "Ꮧ", "Ꮨ", "U+ABA8", "Ꮨ", "Ꮩ", "U+ABA9", "Ꮩ",
      "Ꮪ", "U+ABAA", "Ꮪ", "Ꮫ", "U+ABAB", "Ꮫ", "Ꮬ", "U+ABAC", "Ꮬ", "Ꮭ", "U+ABAD", "Ꮭ",
      "Ꮮ", "U+ABAE", "Ꮮ", "Ꮯ", "U+ABAF", "Ꮯ", "Ꮰ", "U+ABB0", "Ꮰ", "Ꮱ", "U+ABB1", "Ꮱ",
      "Ꮲ", "U+ABB2", "Ꮲ", "Ꮳ", "U+ABB3", "Ꮳ", "Ꮴ", "U+ABB4", "Ꮴ", "Ꮵ", "U+ABB5", "Ꮵ",
      "Ꮶ", "U+ABB6", "Ꮶ", "Ꮷ", "U+ABB7", "Ꮷ", "Ꮸ", "U+ABB8", "Ꮸ", "Ꮹ", "U+ABB9", "Ꮹ",
      "Ꮺ", "U+ABBA", "Ꮺ", "Ꮻ", "U+ABBB", "Ꮻ", "Ꮼ", "U+ABBC", "Ꮼ", "Ꮽ", "U+ABBD", "Ꮽ",
      "Ꮾ", "U+ABBE", "Ꮾ", "Ꮿ", "U+ABBF", "Ꮿ", "Ᏸ", "ᏸ", "Ᏸ", "Ᏹ", "ᏹ", "Ᏹ",
      "Ᏺ", "ᏺ", "Ᏺ", "Ᏻ", "ᏻ", "Ᏻ", "Ᏼ", "ᏼ", "Ᏼ", "Ᏽ", "ᏽ", "Ᏽ",
      "ᏸ", "ᏸ", "Ᏸ", "ᏹ", "ᏹ", "Ᏹ", "ᏺ", "ᏺ", "Ᏺ", "ᏻ", "ᏻ", "Ᏻ",
      "ᏼ", "ᏼ", "Ᏼ", "ᏽ", "ᏽ", "Ᏽ", "ᲀ", "ᲀ", "U+0412", "ᲁ", "ᲁ", "U+0414",
      "ᲂ", "ᲂ", "U+041E", "ᲃ", "ᲃ", "U+0421", "ᲄ", "ᲄ", "U+0422", "ᲅ", "ᲅ", "U+0422",
      "ᲆ", "ᲆ", "U+042A", "ᲇ", "ᲇ", "U+0462", "ᲈ", "ᲈ", "U+A64A", "Ა", "ა", "Ა",
      "Ბ", "ბ", "Ბ", "Გ", "გ", "Გ", "Დ", "დ", "Დ", "Ე", "ე", "Ე",
      "Ვ", "ვ", "Ვ", "Ზ", "ზ", "Ზ", "Თ", "თ", "Თ", "Ი", "ი", "Ი",
      "Კ", "კ", "Კ", "Ლ", "ლ", "Ლ", "Მ", "მ", "Მ", "Ნ", "ნ", "Ნ",
      "Ო", "ო", "Ო", "Პ", "პ", "Პ", "Ჟ", "ჟ", "Ჟ", "Რ", "რ", "Რ",
      "Ს", "ს", "Ს", "Ტ", "ტ", "Ტ", "Უ", "უ", "Უ", "Ფ", "ფ", "Ფ",
      "Ქ", "ქ", "Ქ", "Ღ", "ღ", "Ღ", "Ყ", "ყ", "Ყ", "Შ", "შ", "Შ",
      "Ჩ", "ჩ", "Ჩ", "Ც", "ც", "Ც", "Ძ", "ძ", "Ძ", "Წ", "წ", "Წ",
      "Ჭ", "ჭ", "Ჭ", "Ხ", "ხ", "Ხ", "Ჯ", "ჯ", "Ჯ", "Ჰ", "ჰ", "Ჰ",
      "Ჱ", "ჱ", "Ჱ", "Ჲ", "ჲ", "Ჲ", "Ჳ", "ჳ", "Ჳ", "Ჴ", "ჴ", "Ჴ",
      "Ჵ", "ჵ", "Ჵ", "Ჶ", "ჶ", "Ჶ", "Ჷ", "ჷ", "Ჷ", "Ჸ", "ჸ", "Ჸ",
      "Ჹ", "ჹ", "Ჹ", "Ჺ", "ჺ", "Ჺ", "Ჽ", "ჽ", "Ჽ", "Ჾ", "ჾ", "Ჾ",
      "Ჿ", "ჿ", "Ჿ", "U+1D00", "U+1D00", "U+1D00", "U+1D01", "U+1D01", "U+1D01", "U+1D02", "U+1D02", "U+1D02",
      "U+1D03", "U+1D03", "U+1D03", "U+1D04", "U+1D04", "U+1D04", "U+1D05", "U+1D05", "U+1D05", "U+1D06", "U+1D06", "U+1D06",
      "U+1D07", "U+1D07", "U+1D07", "U+1D08", "U+1D08", "U+1D08", "U+1D09", "U+1D09", "U+1D09", "U+1D0A", "U+1D0A", "U+1D0A",
      "U+1D0B", "U+1D0B", "U+1D0B", "U+1D0C", "U+1D0C", "U+1D0C", "U+1D0D", "U+1D0D", "U+1D0D", "U+1D0E", "U+1D0E", "U+1D0E",
      "U+1D0F", "U+1D0F", "U+1D0F", "U+1D10", "U+1D10", "U+1D10", "U+1D11", "U+1D11", "U+1D11", "U+1D12", "U+1D12", "U+1D12",
      "U+1D13", "U+1D13", "U+1D13", "U+1D14", "U+1D14", "U+1D14", "U+1D15", "U+1D15", "U+1D15", "U+1D16", "U+1D16", "U+1D16",
      "U+1D17", "U+1D17", "U+1D17", "U+1D18", "U+1D18", "U+1D18", "U+1D19", "U+1D19", "U+1D19", "U+1D1A", "U+1D1A", "U+1D1A",
      "U+1D1B", "U+1D1B", "U+1D1B", "U+1D1C", "U+1D1C", "U+1D1C", "U+1D1D", "U+1D1D", "U+1D1D", "U+1D1E", "U+1D1E", "U+1D1E",
      "U+1D1F", "U+1D1F", "U+1D1F", "U+1D20", "U+1D20", "U+1D20", "U+1D21", "U+1D21", "U+1D21", "U+1D22", "U+1D22", "U+1D22",
      "U+1D23", "U+1D23", "U+1D23", "U+1D24", "U+1D24", "U+1D24", "U+1D25", "U+1D25", "U+1D25", "U+1D26", "U+1D26", "U+1D26",
      "U+1D27", "U+1D27", "U+1D27", "U+1D28", "U+1D28", "U+1D28", "U+1D29", "U+1D29", "U+1D29", "U+1D2A", "U+1D2A", "U+1D2A",
      "U+1D2B", "U+1D2B", "U+1D2B", "U+1D2C", "U+1D2C", "U+1D2C", "U+1D2D", "U+1D2D", "U+1D2D", "U+1D2E", "U+1D2E", "U+1D2E",
      "U+1D2F", "U+1D2F", "U+1D2F", "U+1D30", "U+1D30", "U+1D30", "U+1D31", "U+1D31", "U+1D31", "U+1D32", "U+1D32", "U+1D32",
      "U+1D33", "U+1D33", "U+1D33", "U+1D34", "U+1D34", "U+1D34", "U+1D35", "U+1D35", "U+1D35", "U+1D36", "U+1D36", "U+1D36",
      "U+1D37", "U+1D37", "U+1D37", "U+1D38", "U+1D38", "U+1D38", "U+1D39", "U+1D39", "U+1D39", "U+1D3A", "U+1D3A", "U+1D3A",
      "U+1D3B", "U+1D3B", "U+1D3B", "U+1D3C", "U+1D3C", "U+1D3C", "U+1D3D", "U+1D3D", "U+1D3D", "U+1D3E", "U+1D3E", "U+1D3E",
      "U+1D3F", "U+1D3F", "U+1D3F", "U+1D40", "U+1D40", "U+1D40", "U+1D41", "U+1D41", "U+1D41", "U+1D42", "U+1D42", "U+1D42",
      "U+1D43", "U+1D43", "U+1D43", "U+1D44", "U+1D44", "U+1D44", "U+1D45", "U+1D45", "U+1D45", "U+1D46", "U+1D46", "U+1D46",
      "U+1D47", "U+1D47", "U+1D47", "U+1D48", "U+1D48", "U+1D48", "U+1D49", "U+1D49", "U+1D49", "U+1D4A", "U+1D4A", "U+1D4A",
      "U+1D4B", "U+1D4B", "U+1D4B", "U+1D4C", "U+1D4C", "U+1D4C", "U+1D4D", "U+1D4D", "U+1D4D", "U+1D4E", "U+1D4E", "U+1D4E",
      "U+1D4F", "U+1D4F", "U+1D4F", "U+1D50", "U+1D50", "U+1D50", "U+1D51", "U+1D51", "U+1D51", "U+1D52", "U+1D52", "U+1D52",
      "U+1D53", "U+1D53", "U+1D53", "U+1D54", "U+1D54", "U+1D54", "U+1D55", "U+1D55", "U+1D55", "U+1D56", "U+1D56", "U+1D56",
      "U+1D57", "U+1D57", "U+1D57", "U+1D58", "U+1D58", "U+1D58", "U+1D59", "U+1D59", "U+1D59", "U+1D5A", "U+1D5A", "U+1D5A",
      "U+1D5B", "U+1D5B", "U+1D5B", "U+1D5C", "U+1D5C", "U+1D5C", "U+1D5D", "U+1D5D", "U+1D5D", "U+1D5E", "U+1D5E", "U+1D5E",
      "U+1D5F", "U+1D5F", "U+1D5F", "U+1D60", "U+1D60", "U+1D60", "U+1D61", "U+1D61", "U+1D61", "U+1D62", "U+1D62", "U+1D62",
      "U+1D63", "U+1D63", "U+1D63", "U+1D64", "U+1D64", "U+1D64", "U+1D65", "U+1D65", "U+1D65", "U+1D66", "U+1D66", "U+1D66",
      "U+1D67", "U+1D67", "U+1D67", "U+1D68", "U+1D68", "U+1D68", "U+1D69", "U+1D69", "U+1D69", "U+1D6A", "U+1D6A", "U+1D6A",
      "U+1D6B", "U+1D6B", "U+1D6B", "U+1D6C", "U+1D6C", "U+1D6C", "U+1D6D", "U+1D6D", "U+1D6D", "U+1D6E", "U+1D6E", "U+1D6E",
      "U+1D6F", "U+1D6F", "U+1D6F", "U+1D70", "U+1D70", "U+1D70", "U+1D71", "U+1D71", "U+1D71", "U+1D72", "U+1D72", "U+1D72",
      "U+1D73", "U+1D73", "U+1D73", "U+1D74", "U+1D74", "U+1D74", "U+1D75", "U+1D75", "U+1D75", "U+1D76", "U+1D76", "U+1D76",
      "U+1D77", "U+1D77", "U+1D77", "U+1D78", "U+1D78", "U+1D78", "U+1D79", "U+1D79", "U+A77D", "U+1D7A", "U+1D7A", "U+1D7A",
      "U+1D7B", "U+1D7B", "U+1D7B", "U+1D7C", "U+1D7C", "U+1D7C", "U+1D7D", "U+1D7D", "U+2C63", "U+1D7E", "U+1D7E", "U+1D7E",
      "U+1D7F", "U+1D7F", "U+1D7F", "ᶀ", "ᶀ", "ᶀ", "ᶁ", "ᶁ", "ᶁ", "ᶂ", "ᶂ", "ᶂ",
      "ᶃ", "ᶃ", "ᶃ", "ᶄ", "ᶄ", "ᶄ", "ᶅ", "ᶅ", "ᶅ", "ᶆ", "ᶆ", "ᶆ",
      "ᶇ", "ᶇ", "ᶇ", "ᶈ", "ᶈ", "ᶈ", "ᶉ", "ᶉ", "ᶉ", "ᶊ", "ᶊ", "ᶊ",
      "ᶋ", "ᶋ", "ᶋ", "ᶌ", "ᶌ", "ᶌ", "ᶍ", "ᶍ", "ᶍ", "ᶎ", "ᶎ", "U+A7C6",
      "ᶏ", "ᶏ", "ᶏ", "ᶐ", "ᶐ", "ᶐ", "ᶑ", "ᶑ", "ᶑ", "ᶒ", "ᶒ", "ᶒ",
      "ᶓ", "ᶓ", "ᶓ", "ᶔ", "ᶔ", "ᶔ", "ᶕ", "ᶕ", "ᶕ", "ᶖ", "ᶖ", "ᶖ",
      "ᶗ", "ᶗ", "ᶗ", "ᶘ", "ᶘ", "ᶘ", "ᶙ", "ᶙ", "ᶙ", "ᶚ", "ᶚ", "ᶚ",
      "ᶛ", "ᶛ", "ᶛ", "ᶜ", "ᶜ", "ᶜ", "ᶝ", "ᶝ", "ᶝ", "ᶞ", "ᶞ", "ᶞ",
      "ᶟ", "ᶟ", "ᶟ", "ᶠ", "ᶠ", "ᶠ", "ᶡ", "ᶡ", "ᶡ", "ᶢ", "ᶢ", "ᶢ",
      "ᶣ", "ᶣ", "ᶣ", "ᶤ", "ᶤ", "ᶤ", "ᶥ", "ᶥ", "ᶥ", "ᶦ", "ᶦ", "ᶦ",
      "ᶧ", "ᶧ", "ᶧ", "ᶨ", "ᶨ", "ᶨ", "ᶩ", "ᶩ", "ᶩ", "ᶪ", "ᶪ", "ᶪ",
      "ᶫ", "ᶫ", "ᶫ", "ᶬ", "ᶬ", "ᶬ", "ᶭ", "ᶭ", "ᶭ", "ᶮ", "ᶮ", "ᶮ",
      "ᶯ", "ᶯ", "ᶯ", "ᶰ", "ᶰ", "ᶰ", "ᶱ", "ᶱ", "ᶱ", "ᶲ", "ᶲ", "ᶲ",
      "ᶳ", "ᶳ", "ᶳ", "ᶴ", "ᶴ", "ᶴ", "ᶵ", "ᶵ", "ᶵ", "ᶶ", "ᶶ", "ᶶ",
      "ᶷ", "ᶷ", "ᶷ", "ᶸ", "ᶸ", "ᶸ", "ᶹ", "ᶹ", "ᶹ", "ᶺ", "ᶺ", "ᶺ",
      "ᶻ", "ᶻ", "ᶻ", "ᶼ", "ᶼ", "ᶼ", "ᶽ", "ᶽ", "ᶽ", "ᶾ", "ᶾ", "ᶾ",
      "ᶿ", "ᶿ", "ᶿ", "U+1E00", "U+1E01", "U+1E00", "U+1E01", "U+1E01", "U+1E00", "U+1E02", "U+1E03", "U+1E02",
      "U+1E03", "U+1E03", "U+1E02", "U+1E04", "U+1E05", "U+1E04", "U+1E05", "U+1E05", "U+1E04", "U+1E06", "U+1E07", "U+1E06",
      "U+1E07", "U+1E07", "U+1E06", "U+1E08", "U+1E09", "U+1E08", "U+1E09", "U+1E09", "U+1E08", "U+1E0A", "U+1E0B", "U+1E0A",
      "U+1E0B", "U+1E0B", "U+1E0A", "U+1E0C", "U+1E0D", "U+1E0C", "U+1E0D", "U+1E0D", "U+1E0C", "U+1E0E", "U+1E0F", "U+1E0E",
      "U+1E0F", "U+1E0F", "U+1E0E", "U+1E10", "U+1E11", "U+1E10", "U+1E11", "U+1E11", "U+1E10", "U+1E12", "U+1E13", "U+1E12",
      "U+1E13", "U+1E13", "U+1E12", "U+1E14", "U+1E15", "U+1E14", "U+1E15", "U+1E15", "U+1E14", "U+1E16", "U+1E17", "U+1E16",
      "U+1E17", "U+1E17", "U+1E16", "U+1E18", "U+1E19", "U+1E18", "U+1E19", "U+1E19", "U+1E18", "U+1E1A", "U+1E1B", "U+1E1A",
      "U+1E1B", "U+1E1B", "U+1E1A", "U+1E1C", "U+1E1D", "U+1E1C", "U+1E1D", "U+1E1D", "U+1E1C", "U+1E1E", "U+1E1F", "U+1E1E",
      "U+1E1F", "U+1E1F", "U+1E1E", "U+1E20", "U+1E21", "U+1E20", "U+1E21", "U+1E21", "U+1E20", "U+1E22", "U+1E23", "U+1E22",
      "U+1E23", "U+1E23", "U+1E22", "U+1E24", "U+1E25", "U+1E24", "U+1E25", "U+1E25", "U+1E24", "U+1E26", "U+1E27", "U+1E26",
      "U+1E27", "U+1E27", "U+1E26", "U+1E28", "U+1E29", "U+1E28", "U+1E29", "U+1E29", "U+1E28", "U+1E2A", "U+1E2B", "U+1E2A",
      "U+1E2B", "U+1E2B", "U+1E2A", "U+1E2C", "U+1E2D", "U+1E2C", "U+1E2D", "U+1E2D", "U+1E2C", "U+1E2E", "U+1E2F", "U+1E2E",
      "U+1E2F", "U+1E2F", "U+1E2E", "U+1E30", "U+1E31", "U+1E30", "U+1E31", "U+1E31", "U+1E30", "U+1E32", "U+1E33", "U+1E32",
      "U+1E33", "U+1E33", "U+1E32", "U+1E34", "U+1E35", "U+1E34", "U+1E35", "U+1E35", "U+1E34", "U+1E36", "U+1E37", "U+1E36",
      "U+1E37", "U+1E37", "U+1E36", "U+1E38", "U+1E39", "U+1E38", "U+1E39", "U+1E39", "U+1E38", "U+1E3A", "U+1E3B", "U+1E3A",
      "U+1E3B", "U+1E3B", "U+1E3A", "U+1E3C", "U+1E3D", "U+1E3C", "U+1E3D", "U+1E3D", "U+1E3C", "U+1E3E", "U+1E3F", "U+1E3E",
      "U+1E3F", "U+1E3F", "U+1E3E", "U+1E40", "U+1E41", "U+1E40", "U+1E41", "U+1E41", "U+1E40", "U+1E42", "U+1E43", "U+1E42",
      "U+1E43", "U+1E43", "U+1E42", "U+1E44", "U+1E45", "U+1E44", "U+1E45", "U+1E45", "U+1E44", "U+1E46", "U+1E47", "U+1E46",
      "U+1E47", "U+1E47", "U+1E46", "U+1E48", "U+1E49", "U+1E48", "U+1E49", "U+1E49", "U+1E48", "U+1E4A", "U+1E4B", "U+1E4A",
      "U+1E4B", "U+1E4B", "U+1E4A", "U+1E4C", "U+1E4D", "U+1E4C", "U+1E4D", "U+1E4D", "U+1E4C", "U+1E4E", "U+1E4F", "U+1E4E",
      "U+1E4F", "U+1E4F", "U+1E4E", "U+1E50", "U+1E51", "U+1E50", "U+1E51", "U+1E51", "U+1E50", "U+1E52", "U+1E53", "U+1E52",
      "U+1E53", "U+1E53", "U+1E52", "U+1E54", "U+1E55", "U+1E54", "U+1E55", "U+1E55", "U+1E54", "U+1E56", "U+1E57", "U+1E56",
      "U+1E57", "U+1E57", "U+1E56", "U+1E58", "U+1E59", "U+1E58", "U+1E59", "U+1E59", "U+1E58", "U+1E5A", "U+1E5B", "U+1E5A",
      "U+1E5B", "U+1E5B", "U+1E5A", "U+1E5C", "U+1E5D", "U+1E5C", "U+1E5D", "U+1E5D", "U+1E5C", "U+1E5E", "U+1E5F", "U+1E5E",
      "U+1E5F", "U+1E5F", "U+1E5E", "U+1E60", "U+1E61", "U+1E60", "U+1E61", "U+1E61", "U+1E60", "U+1E62", "U+1E63", "U+1E62",
      "U+1E63", "U+1E63", "U+1E62", "U+1E64", "U+1E65", "U+1E64", "U+1E65", "U+1E65", "U+1E64", "U+1E66", "U+1E67", "U+1E66",
      "U+1E67", "U+1E67", "U+1E66", "U+1E68", "U+1E69", "U+1E68", "U+1E69", "U+1E69", "U+1E68", "U+1E6A", "U+1E6B", "U+1E6A",
      "U+1E6B", "U+1E6B", "U+1E6A", "U+1E6C", "U+1E6D", "U+1E6C", "U+1E6D", "U+1E6D", "U+1E6C", "U+1E6E", "U+1E6F", "U+1E6E",
      "U+1E6F", "U+1E6F", "U+1E6E", "U+1E70", "U+1E71", "U+1E70", "U+1E71", "U+1E71", "U+1E70", "U+1E72", "U+1E73", "U+1E72",
      "U+1E73", "U+1E73", "U+1E72", "U+1E74", "U+1E75", "U+1E74", "U+1E75", "U+1E75", "U+1E74", "U+1E76", "U+1E77", "U+1E76",
      "U+1E77", "U+1E77", "U+1E76", "U+1E78", "U+1E79", "U+1E78", "U+1E79", "U+1E79", "U+1E78", "U+1E7A", "U+1E7B", "U+1E7A",
      "U+1E7B", "U+1E7B", "U+1E7A", "U+1E7C", "U+1E7D", "U+1E7C", "U+1E7D", "U+1E7D", "U+1E7C", "U+1E7E", "U+1E7F", "U+1E7E",
      "U+1E7F", "U+1E7F", "U+1E7E", "Ẁ", "ẁ", "Ẁ", "ẁ", "ẁ", "Ẁ", "Ẃ", "ẃ", "Ẃ",
      "ẃ", "ẃ", "Ẃ", "Ẅ", "ẅ", "Ẅ", "ẅ", "ẅ", "Ẅ", "Ẇ", "ẇ", "Ẇ",
      "ẇ", "ẇ", "Ẇ", "Ẉ", "ẉ", "Ẉ", "ẉ", "ẉ", "Ẉ", "Ẋ", "ẋ", "Ẋ",
      "ẋ", "ẋ", "Ẋ", "Ẍ", "ẍ", "Ẍ", "ẍ", "ẍ", "Ẍ", "Ẏ", "ẏ", "Ẏ",
      "ẏ", "ẏ", "Ẏ", "Ẑ", "ẑ", "Ẑ", "ẑ", "ẑ", "Ẑ", "Ẓ", "ẓ", "Ẓ",
      "ẓ", "ẓ", "Ẓ", "Ẕ", "ẕ", "Ẕ", "ẕ", "ẕ", "Ẕ", "ẛ", "ẛ", "U+1E60",
      "ẜ", "ẜ", "ẜ", "ẝ", "ẝ", "ẝ", "ẞ", "ß", "ẞ", "ẟ", "ẟ", "ẟ",
      "Ạ", "ạ", "Ạ", "ạ", "ạ", "Ạ", "Ả", "ả", "Ả", "ả", "ả", "Ả",
      "Ấ", "ấ", "Ấ", "ấ", "ấ", "Ấ", "Ầ", "ầ", "Ầ", "ầ", "ầ", "Ầ",
      "Ẩ", "ẩ", "Ẩ", "ẩ", "ẩ", "Ẩ", "Ẫ", "ẫ", "Ẫ", "ẫ", "ẫ", "Ẫ",
      "Ậ", "ậ", "Ậ", "ậ", "ậ", "Ậ", "Ắ", "ắ", "Ắ", "ắ", "ắ", "Ắ",
      "Ằ", "ằ", "Ằ", "ằ", "ằ", "Ằ", "Ẳ", "ẳ", "Ẳ", "ẳ", "ẳ", "Ẳ",
      "Ẵ", "ẵ", "Ẵ", "ẵ", "ẵ", "Ẵ", "Ặ", "ặ", "Ặ", "ặ", "ặ", "Ặ",
      "Ẹ", "ẹ", "Ẹ", "ẹ", "ẹ", "Ẹ", "Ẻ", "ẻ", "Ẻ", "ẻ", "ẻ", "Ẻ",
      "Ẽ", "ẽ", "Ẽ", "ẽ", "ẽ", "Ẽ", "Ế", "ế", "Ế", "ế", "ế", "Ế",
      "Ề", "ề", "Ề", "ề", "ề", "Ề", "Ể", "ể", "Ể", "ể", "ể", "Ể",
      "Ễ", "ễ", "Ễ", "ễ", "ễ", "Ễ", "Ệ", "ệ", "Ệ", "ệ", "ệ", "Ệ",
      "Ỉ", "ỉ", "Ỉ", "ỉ", "ỉ", "Ỉ", "Ị", "ị", "Ị", "ị", "ị", "Ị",
      "Ọ", "ọ", "Ọ", "ọ", "ọ", "Ọ", "Ỏ", "ỏ", "Ỏ", "ỏ", "ỏ", "Ỏ",
      "Ố", "ố", "Ố", "ố", "ố", "Ố", "Ồ", "ồ", "Ồ", "ồ", "ồ", "Ồ",
      "Ổ", "ổ", "Ổ", "ổ", "ổ", "Ổ", "Ỗ", "ỗ", "Ỗ", "ỗ", "ỗ", "Ỗ",
      "Ộ", "ộ", "Ộ", "ộ", "ộ", "Ộ", "Ớ", "ớ", "Ớ", "ớ", "ớ", "Ớ",
      "Ờ", "ờ", "Ờ", "ờ", "ờ", "Ờ", "Ở", "ở", "Ở", "ở", "ở", "Ở",
      "Ỡ", "ỡ", "Ỡ", "ỡ", "ỡ", "Ỡ", "Ợ", "ợ", "Ợ", "ợ", "ợ", "Ợ",
      "Ụ", "ụ", "Ụ", "ụ", "ụ", "Ụ", "Ủ", "ủ", "Ủ", "ủ", "ủ", "Ủ",
      "Ứ", "ứ", "Ứ", "ứ", "ứ", "Ứ", "Ừ", "ừ", "Ừ", "ừ", "ừ", "Ừ",
      "Ử", "ử", "Ử", "ử", "ử", "Ử", "Ữ", "ữ", "Ữ", "ữ", "ữ", "Ữ",
      "Ự", "ự", "Ự", "ự", "ự", "Ự", "Ỳ", "ỳ", "Ỳ", "ỳ", "ỳ", "Ỳ",
      "Ỵ", "ỵ", "Ỵ", "ỵ", "ỵ", "Ỵ", "Ỷ", "ỷ", "Ỷ", "ỷ", "ỷ", "Ỷ",
      "Ỹ", "ỹ", "Ỹ", "ỹ", "ỹ", "Ỹ", "Ỻ", "ỻ", "Ỻ", "ỻ", "ỻ", "Ỻ",
      "Ỽ", "ỽ", "Ỽ", "ỽ", "ỽ", "Ỽ", "Ỿ", "ỿ", "Ỿ", "ỿ", "ỿ", "Ỿ",
      "U+1F00", "U+1F00", "U+1F08", "U+1F01", "U+1F01", "U+1F09", "U+1F02", "U+1F02", "U+1F0A", "U+1F03", "U+1F03", "U+1F0B",
      "U+1F04", "U+1F04", "U+1F0C", "U+1F05", "U+1F05", "U+1F0D", "U+1F06", "U+1F06", "U+1F0E", "U+1F07", "U+1F07", "U+1F0F",
      "U+1F08", "U+1F00", "U+1F08", "U+1F09", "U+1F01", "U+1F09", "U+1F0A", "U+1F02", "U+1F0A", "U+1F0B", "U+1F03", "U+1F0B",
      "U+1F0C", "U+1F04", "U+1F0C", "U+1F0D", "U+1F05", "U+1F0D", "U+1F0E", "U+1F06", "U+1F0E", "U+1F0F", "U+1F07", "U+1F0F",
      "U+1F10", "U+1F10", "U+1F18", "U+1F11", "U+1F11", "U+1F19", "U+1F12", "U+1F12", "U+1F1A", "U+1F13", "U+1F13", "U+1F1B",
      "U+1F14", "U+1F14", "U+1F1C", "U+1F15", "U+1F15", "U+1F1D", "U+1F18", "U+1F10", "U+1F18", "U+1F19", "U+1F11", "U+1F19",
      "U+1F1A", "U+1F12", "U+1F1A", "U+1F1B", "U+1F13", "U+1F1B", "U+1F1C", "U+1F14", "U+1F1C", "U+1F1D", "U+1F15", "U+1F1D",
      "U+1F20", "U+1F20", "U+1F28", "U+1F21", "U+1F21", "U+1F29", "U+1F22", "U+1F22", "U+1F2A", "U+1F23", "U+1F23", "U+1F2B",
      "U+1F24", "U+1F24", "U+1F2C", "U+1F25", "U+1F25", "U+1F2D", "U+1F26", "U+1F26", "U+1F2E", "U+1F27", "U+1F27", "U+1F2F",
      "U+1F28", "U+1F20", "U+1F28", "U+1F29", "U+1F21", "U+1F29", "U+1F2A", "U+1F22", "U+1F2A", "U+1F2B", "U+1F23", "U+1F2B",
      "U+1F2C", "U+1F24", "U+1F2C", "U+1F2D", "U+1F25", "U+1F2D", "U+1F2E", "U+1F26", "U+1F2E", "U+1F2F", "U+1F27", "U+1F2F",
      "U+1F30", "U+1F30", "U+1F38", "U+1F31", "U+1F31", "U+1F39", "U+1F32", "U+1F32", "U+1F3A", "U+1F33", "U+1F33", "U+1F3B",
      "U+1F34", "U+1F34", "U+1F3C", "U+1F35", "U+1F35", "U+1F3D", "U+1F36", "U+1F36", "U+1F3E", "U+1F37", "U+1F37", "U+1F3F",
      "U+1F38", "U+1F30", "U+1F38", "U+1F39", "U+1F31", "U+1F39", "U+1F3A", "U+1F32", "U+1F3A", "U+1F3B", "U+1F33", "U+1F3B",
      "U+1F3C", "U+1F34", "U+1F3C", "U+1F3D", "U+1F35", "U+1F3D", "U+1F3E", "U+1F36", "U+1F3E", "U+1F3F", "U+1F37", "U+1F3F",
      "U+1F40", "U+1F40", "U+1F48", "U+1F41", "U+1F41", "U+1F49", "U+1F42", "U+1F42", "U+1F4A", "U+1F43", "U+1F43", "U+1F4B",
      "U+1F44", "U+1F44", "U+1F4C", "U+1F45", "U+1F45", "U+1F4D", "U+1F48", "U+1F40", "U+1F48", "U+1F49", "U+1F41", "U+1F49",
      "U+1F4A", "U+1F42", "U+1F4A", "U+1F4B", "U+1F43", "U+1F4B", "U+1F4C", "U+1F44", "U+1F4C", "U+1F4D", "U+1F45", "U+1F4D",
      "U+1F51", "U+1F51", "U+1F59", "U+1F53", "U+1F53", "U+1F5B", "U+1F55", "U+1F55", "U+1F5D", "U+1F57", "U+1F57", "U+1F5F",
      "U+1F59", "U+1F51", "U+1F59", "U+1F5B", "U+1F53", "U+1F5B", "U+1F5D", "U+1F55", "U+1F5D", "U+1F5F", "U+1F57", "U+1F5F",
      "U+1F60", "U+1F60", "U+1F68", "U+1F61", "U+1F61", "U+1F69", "U+1F62", "U+1F62", "U+1F6A", "U+1F63", "U+1F63", "U+1F6B",
      "U+1F64", "U+1F64", "U+1F6C", "U+1F65", "U+1F65", "U+1F6D", "U+1F66", "U+1F66", "U+1F6E", "U+1F67", "U+1F67", "U+1F6F",
      "U+1F68", "U+1F60", "U+1F68", "U+1F69", "U+1F61", "U+1F69", "U+1F6A", "U+1F62", "U+1F6A", "U+1F6B", "U+1F63", "U+1F6B",
      "U+1F6C", "U+1F64", "U+1F6C", "U+1F6D", "U+1F65", "U+1F6D", "U+1F6E", "U+1F66", "U+1F6E", "U+1F6F", "U+1F67", "U+1F6F",
      "U+1F70", "U+1F70", "Ὰ", "U+1F71", "U+1F71", "Ά", "U+1F72", "U+1F72", "Ὲ", "U+1F73", "U+1F73", "Έ",
      "U+1F74", "U+1F74", "Ὴ", "U+1F75", "U+1F75", "Ή", "U+1F76", "U+1F76", "Ὶ", "U+1F77", "U+1F77", "Ί",
      "U+1F78", "U+1F78", "Ὸ", "U+1F79", "U+1F79", "Ό", "U+1F7A", "U+1F7A", "Ὺ", "U+1F7B", "U+1F7B", "Ύ",
      "U+1F7C", "U+1F7C", "Ὼ", "U+1F7D", "U+1F7D", "Ώ", "ᾀ", "ᾀ", "ᾈ", "ᾁ", "ᾁ", "ᾉ",
      "ᾂ", "ᾂ", "ᾊ", "ᾃ", "ᾃ", "ᾋ", "ᾄ", "ᾄ", "ᾌ", "ᾅ", "ᾅ", "ᾍ",
      "ᾆ", "ᾆ", "ᾎ", "ᾇ", "ᾇ", "ᾏ", "ᾈ", "ᾀ", "ᾈ", "ᾉ", "ᾁ", "ᾉ",
      "ᾊ", "ᾂ", "ᾊ", "ᾋ", "ᾃ", "ᾋ", "ᾌ", "ᾄ", "ᾌ", "ᾍ", "ᾅ", "ᾍ",
      "ᾎ", "ᾆ", "ᾎ", "ᾏ", "ᾇ", "ᾏ", "ᾐ", "ᾐ", "ᾘ", "ᾑ", "ᾑ", "ᾙ",
      "ᾒ", "ᾒ", "ᾚ", "ᾓ", "ᾓ", "ᾛ", "ᾔ", "ᾔ", "ᾜ", "ᾕ", "ᾕ", "ᾝ",
      "ᾖ", "ᾖ", "ᾞ", "ᾗ", "ᾗ", "ᾟ", "ᾘ", "ᾐ", "ᾘ", "ᾙ", "ᾑ", "ᾙ",
      "ᾚ", "ᾒ", "ᾚ", "ᾛ", "ᾓ", "ᾛ", "ᾜ", "ᾔ", "ᾜ", "ᾝ", "ᾕ", "ᾝ",
      "ᾞ", "ᾖ", "ᾞ", "ᾟ", "ᾗ", "ᾟ", "ᾠ", "ᾠ", "ᾨ", "ᾡ", "ᾡ", "ᾩ",
      "ᾢ", "ᾢ", "ᾪ", "ᾣ", "ᾣ", "ᾫ", "ᾤ", "ᾤ", "ᾬ", "ᾥ", "ᾥ", "ᾭ",
      "ᾦ", "ᾦ", "ᾮ", "ᾧ", "ᾧ", "ᾯ", "ᾨ", "ᾠ", "ᾨ", "ᾩ", "ᾡ", "ᾩ",
      "ᾪ", "ᾢ", "ᾪ", "ᾫ", "ᾣ", "ᾫ", "ᾬ", "ᾤ", "ᾬ", "ᾭ", "ᾥ", "ᾭ",
      "ᾮ", "ᾦ", "ᾮ", "ᾯ", "ᾧ", "ᾯ", "ᾰ", "ᾰ", "Ᾰ", "ᾱ", "ᾱ", "Ᾱ",
      "ᾳ", "ᾳ", "ᾼ", "Ᾰ", "ᾰ", "Ᾰ", "Ᾱ", "ᾱ", "Ᾱ", "Ὰ", "U+1F70", "Ὰ",
      "Ά", "U+1F71", "Ά", "ᾼ", "ᾳ", "ᾼ", "ι", "ι", "Ι", "ῃ", "ῃ", "ῌ",
      "Ὲ", "U+1F72", "Ὲ", "Έ", "U+1F73", "Έ", "Ὴ", "U+1F74", "Ὴ", "Ή", "U+1F75", "Ή",
      "ῌ", "ῃ", "ῌ", "ῐ", "ῐ", "Ῐ", "ῑ", "ῑ", "Ῑ", "Ῐ", "ῐ", "Ῐ",
      "Ῑ", "ῑ", "Ῑ", "Ὶ", "U+1F76", "Ὶ", "Ί", "U+1F77", "Ί", "ῠ", "ῠ", "Ῠ",
      "ῡ", "ῡ", "Ῡ", "ῥ", "ῥ", "Ῥ", "Ῠ", "ῠ", "Ῠ", "Ῡ", "ῡ", "Ῡ",
      "Ὺ", "U+1F7A", "Ὺ", "Ύ", "U+1F7B", "Ύ", "Ῥ", "ῥ", "Ῥ", "ῳ", "ῳ", "ῼ",
      "Ὸ", "U+1F78", "Ὸ", "Ό", "U+1F79", "Ό", "Ὼ", "U+1F7C", "Ὼ", "Ώ", "U+1F7D", "Ώ",
      "ῼ", "ῳ", "ῼ", "U+2071", "U+2071", "U+2071", "U+207F", "U+207F", "U+207F", "U+2090", "U+2090", "U+2090",
      "U+2091", "U+2091", "U+2091", "U+2092", "U+2092", "U+2092", "U+2093", "U+2093", "U+2093", "U+2094", "U+2094", "U+2094",
      "U+2095", "U+2095", "U+2095", "U+2096", "U+2096", "U+2096", "U+2097", "U+2097", "U+2097", "U+2098", "U+2098", "U+2098",
      "U+2099", "U+2099", "U+2099", "U+209A", "U+209A", "U+209A", "U+209B", "U+209B", "U+209B", "U+209C", "U+209C", "U+209C",
      "U+2102", "U+2102", "U+2102", "U+2107", "U+2107", "U+2107", "U+210A", "U+210A", "U+210A", "U+210B", "U+210B", "U+210B",
      "U+210C", "U+210C", "U+210C", "U+210D", "U+210D", "U+210D", "U+210E", "U+210E", "U+210E", "U+210F", "U+210F", "U+210F",
      "U+2110", "U+2110", "U+2110", "U+2111", "U+2111", "U+2111", "U+2112", "U+2112", "U+2112", "U+2113", "U+2113", "U+2113",
      "U+2115", "U+2115", "U+2115", "U+2119", "U+2119", "U+2119", "U+211A", "U+211A", "U+211A", "U+211B", "U+211B", "U+211B",
      "U+211C", "U+211C", "U+211C", "U+211D", "U+211D", "U+211D", "U+2124", "U+2124", "U+2124", "U+2126", "ω", "U+2126",
      "U+2128", "U+2128", "U+2128", "U+212A", "k", "U+212A", "U+212B", "å", "U+212B", "U+212C", "U+212C", "U+212C",
      "U+212D", "U+212D", "U+212D", "U+212F", "U+212F", "U+212F", "U+2130", "U+2130", "U+2130", "U+2131", "U+2131", "U+2131",
      "U+2132", "U+214E", "U+2132", "U+2133", "U+2133", "U+2133", "U+2134", "U+2134", "U+2134", "U+2139", "U+2139", "U+2139",
      "U+213C", "U+213C", "U+213C", "U+213D", "U+213D", "U+213D", "U+213E", "U+213E", "U+213E", "U+213F", "U+213F", "U+213F",
      "U+2145", "U+2145", "U+2145", "U+2146", "U+2146", "U+2146", "U+2147", "U+2147", "U+2147", "U+2148", "U+2148", "U+2148",
      "U+2149", "U+2149", "U+2149", "U+214E", "U+214E", "U+2132", "U+2160", "U+2170", "U+2160", "U+2161", "U+2171", "U+2161",
      "U+2162", "U+2172", "U+2162", "U+2163", "U+2173", "U+2163", "U+2164", "U+2174", "U+2164", "U+2165", "U+2175", "U+2165",
      "U+2166", "U+2176", "U+2166", "U+2167", "U+2177", "U+2167", "U+2168", "U+2178", "U+2168", "U+2169", "U+2179", "U+2169",
      "U+216A", "U+217A", "U+216A", "U+216B", "U+217B", "U+216B", "U+216C", "U+217C", "U+216C", "U+216D", "U+217D", "U+216D",
      "U+216E", "U+217E", "U+216E", "U+216F", "U+217F", "U+216F", "U+2170", "U+2170", "U+2160", "U+2171", "U+2171", "U+2161",
      "U+2172", "U+2172", "U+2162", "U+2173", "U+2173", "U+2163", "U+2174", "U+2174", "U+2164", "U+2175", "U+2175", "U+2165",
      "U+2176", "U+2176", "U+2166", "U+2177", "U+2177", "U+2167", "U+2178", "U+2178", "U+2168", "U+2179", "U+2179", "U+2169",
      "U+217A", "U+217A", "U+216A", "U+217B", "U+217B", "U+216B", "U+217C", "U+217C", "U+216C", "U+217D", "U+217D", "U+216D",
      "U+217E", "U+217E", "U+216E", "U+217F", "U+217F", "U+216F", "U+2183", "U+2184", "U+2183", "U+2184", "U+2184", "U+2183",
      "U+24B6", "U+24D0", "U+24B6", "U+24B7", "U+24D1", "U+24B7", "U+24B8", "U+24D2", "U+24B8", "U+24B9", "U+24D3", "U+24B9",
      "U+24BA", "U+24D4", "U+24BA", "U+24BB", "U+24D5", "U+24BB", "U+24BC", "U+24D6", "U+24BC", "U+24BD", "U+24D7", "U+24BD",
      "U+24BE", "U+24D8", "U+24BE", "U+24BF", "U+24D9", "U+24BF", "U+24C0", "U+24DA", "U+24C0", "U+24C1", "U+24DB", "U+24C1",
      "U+24C2", "U+24DC", "U+24C2", "U+24C3", "U+24DD", "U+24C3", "U+24C4", "U+24DE", "U+24C4", "U+24C5", "U+24DF", "U+24C5",
      "U+24C6", "U+24E0", "U+24C6", "U+24C7", "U+24E1", "U+24C7", "U+24C8", "U+24E2", "U+24C8", "U+24C9", "U+24E3", "U+24C9",
      "U+24CA", "U+24E4", "U+24CA", "U+24CB", "U+24E5", "U+24CB", "U+24CC", "U+24E6", "U+24CC", "U+24CD", "U+24E7", "U+24CD",
      "U+24CE", "U+24E8", "U+24CE", "U+24CF", "U+24E9", "U+24CF", "U+24D0", "U+24D0", "U+24B6", "U+24D1", "U+24D1", "U+24B7",
      "U+24D2", "U+24D2", "U+24B8", "U+24D3", "U+24D3", "U+24B9", "U+24D4", "U+24D4", "U+24BA", "U+24D5", "U+24D5", "U+24BB",
      "U+24D6", "U+24D6", "U+24BC", "U+24D7", "U+24D7", "U+24BD", "U+24D8", "U+24D8", "U+24BE", "U+24D9", "U+24D9", "U+24BF",
      "U+24DA", "U+24DA", "U+24C0", "U+24DB", "U+24DB", "U+24C1", "U+24DC", "U+24DC", "U+24C2", "U+24DD", "U+24DD", "U+24C3",
      "U+24DE", "U+24DE", "U+24C4", "U+24DF", "U+24DF", "U+24C5", "U+24E0", "U+24E0", "U+24C6", "U+24E1", "U+24E1", "U+24C7",
      "U+24E2", "U+24E2", "U+24C8", "U+24E3", "U+24E3", "U+24C9", "U+24E4", "U+24E4", "U+24CA", "U+24E5", "U+24E5", "U+24CB",
      "U+24E6", "U+24E6", "U+24CC", "U+24E7", "U+24E7", "U+24CD", "U+24E8", "U+24E8", "U+24CE", "U+24E9", "U+24E9", "U+24CF",
      "U+2C00", "U+2C30", "U+2C00", "U+2C01", "U+2C31", "U+2C01", "U+2C02", "U+2C32", "U+2C02", "U+2C03", "U+2C33", "U+2C03",
      "U+2C04", "U+2C34", "U+2C04", "U+2C05", "U+2C35", "U+2C05", "U+2C06", "U+2C36", "U+2C06", "U+2C07", "U+2C37", "U+2C07",
      "U+2C08", "U+2C38", "U+2C08", "U+2C09", "U+2C39", "U+2C09", "U+2C0A", "U+2C3A", "U+2C0A", "U+2C0B", "U+2C3B", "U+2C0B",
      "U+2C0C", "U+2C3C", "U+2C0C", "U+2C0D", "U+2C3D", "U+2C0D", "U+2C0E", "U+2C3E", "U+2C0E", "U+2C0F", "U+2C3F", "U+2C0F",
      "U+2C10", "U+2C40", "U+2C10", "U+2C11", "U+2C41", "U+2C11", "U+2C12", "U+2C42", "U+2C12", "U+2C13", "U+2C43", "U+2C13",
      "U+2C14", "U+2C44", "U+2C14", "U+2C15", "U+2C45", "U+2C15", "U+2C16", "U+2C46", "U+2C16", "U+2C17", "U+2C47", "U+2C17",
      "U+2C18", "U+2C48", "U+2C18", "U+2C19", "U+2C49", "U+2C19", "U+2C1A", "U+2C4A", "U+2C1A", "U+2C1B", "U+2C4B", "U+2C1B",
      "U+2C1C", "U+2C4C", "U+2C1C", "U+2C1D", "U+2C4D", "U+2C1D", "U+2C1E", "U+2C4E", "U+2C1E", "U+2C1F", "U+2C4F", "U+2C1F",
      "U+2C20", "U+2C50", "U+2C20", "U+2C21", "U+2C51", "U+2C21", "U+2C22", "U+2C52", "U+2C22", "U+2C23", "U+2C53", "U+2C23",
      "U+2C24", "U+2C54", "U+2C24", "U+2C25", "U+2C55", "U+2C25", "U+2C26", "U+2C56", "U+2C26", "U+2C27", "U+2C57", "U+2C27",
      "U+2C28", "U+2C58", "U+2C28", "U+2C29", "U+2C59", "U+2C29", "U+2C2A", "U+2C5A", "U+2C2A", "U+2C2B", "U+2C5B", "U+2C2B",
      "U+2C2C", "U+2C5C", "U+2C2C", "U+2C2D", "U+2C5D", "U+2C2D", "U+2C2E", "U+2C5E", "U+2C2E", "U+2C2F", "U+2C5F", "U+2C2F",
      "U+2C30", "U+2C30", "U+2C00", "U+2C31", "U+2C31", "U+2C01", "U+2C32", "U+2C32", "U+2C02", "U+2C33", "U+2C33", "U+2C03",
      "U+2C34", "U+2C34", "U+2C04", "U+2C35", "U+2C35", "U+2C05", "U+2C36", "U+2C36", "U+2C06", "U+2C37", "U+2C37", "U+2C07",
      "U+2C38", "U+2C38", "U+2C08", "U+2C39", "U+2C39", "U+2C09", "U+2C3A", "U+2C3A", "U+2C0A", "U+2C3B", "U+2C3B", "U+2C0B",
      "U+2C3C", "U+2C3C", "U+2C0C", "U+2C3D", "U+2C3D", "U+2C0D", "U+2C3E", "U+2C3E", "U+2C0E", "U+2C3F", "U+2C3F", "U+2C0F",
      "U+2C40", "U+2C40", "U+2C10", "U+2C41", "U+2C41", "U+2C11", "U+2C42", "U+2C42", "U+2C12", "U+2C43", "U+2C43", "U+2C13",
      "U+2C44", "U+2C44", "U+2C14", "U+2C45", "U+2C45", "U+2C15", "U+2C46", "U+2C46", "U+2C16", "U+2C47", "U+2C47", "U+2C17",
      "U+2C48", "U+2C48", "U+2C18", "U+2C49", "U+2C49", "U+2C19", "U+2C4A", "U+2C4A", "U+2C1A", "U+2C4B", "U+2C4B", "U+2C1B",
      "U+2C4C", "U+2C4C", "U+2C1C", "U+2C4D", "U+2C4D", "U+2C1D", "U+2C4E", "U+2C4E", "U+2C1E", "U+2C4F", "U+2C4F", "U+2C1F",
      "U+2C50", "U+2C50", "U+2C20", "U+2C51", "U+2C51", "U+2C21", "U+2C52", "U+2C52", "U+2C22", "U+2C53", "U+2C53", "U+2C23",
      "U+2C54", "U+2C54", "U+2C24", "U+2C55", "U+2C55", "U+2C25", "U+2C56", "U+2C56", "U+2C26", "U+2C57", "U+2C57", "U+2C27",
      "U+2C58", "U+2C58", "U+2C28", "U+2C59", "U+2C59", "U+2C29", "U+2C5A", "U+2C5A", "U+2C2A", "U+2C5B", "U+2C5B", "U+2C2B",
      "U+2C5C", "U+2C5C", "U+2C2C", "U+2C5D", "U+2C5D", "U+2C2D", "U+2C5E", "U+2C5E", "U+2C2E", "U+2C5F", "U+2C5F", "U+2C2F",
      "U+2C60", "U+2C61", "U+2C60", "U+2C61", "U+2C61", "U+2C60", "U+2C62", "U+026B", "U+2C62", "U+2C63", "U+1D7D", "U+2C63",
      "U+2C64", "U+027D", "U+2C64", "U+2C65", "U+2C65", "U+023A", "U+2C66", "U+2C66", "U+023E", "U+2C67", "U+2C68", "U+2C67",
      "U+2C68", "U+2C68", "U+2C67", "U+2C69", "U+2C6A", "U+2C69", "U+2C6A", "U+2C6A", "U+2C69", "U+2C6B", "U+2C6C", "U+2C6B",
      "U+2C6C", "U+2C6C", "U+2C6B", "U+2C6D", "U+0251", "U+2C6D", "U+2C6E", "U+0271", "U+2C6E", "U+2C6F", "U+0250", "U+2C6F",
      "U+2C70", "U+0252", "U+2C70", "U+2C71", "U+2C71", "U+2C71", "U+2C72", "U+2C73", "U+2C72", "U+2C73", "U+2C73", "U+2C72",
      "U+2C74", "U+2C74", "U+2C74", "U+2C75", "U+2C76", "U+2C75", "U+2C76", "U+2C76", "U+2C75", "U+2C77", "U+2C77", "U+2C77",
      "U+2C78", "U+2C78", "U+2C78", "U+2C79", "U+2C79", "U+2C79", "U+2C7A", "U+2C7A", "U+2C7A", "U+2C7B", "U+2C7B", "U+2C7B",
      "U+2C7C", "U+2C7C", "U+2C7C", "U+2C7D", "U+2C7D", "U+2C7D", "U+2C7E", "U+023F", "U+2C7E", "U+2C7F", "U+0240", "U+2C7F",
      "U+2C80", "U+2C81", "U+2C80", "U+2C81", "U+2C81", "U+2C80", "U+2C82", "U+2C83", "U+2C82", "U+2C83", "U+2C83", "U+2C82",
      "U+2C84", "U+2C85", "U+2C84", "U+2C85", "U+2C85", "U+2C84", "U+2C86", "U+2C87", "U+2C86", "U+2C87", "U+2C87", "U+2C86",
      "U+2C88", "U+2C89", "U+2C88", "U+2C89", "U+2C89", "U+2C88", "U+2C8A", "U+2C8B", "U+2C8A", "U+2C8B", "U+2C8B", "U+2C8A",
      "U+2C8C", "U+2C8D", "U+2C8C", "U+2C8D", "U+2C8D", "U+2C8C", "U+2C8E", "U+2C8F", "U+2C8E", "U+2C8F", "U+2C8F", "U+2C8E",
      "U+2C90", "U+2C91", "U+2C90", "U+2C91", "U+2C91", "U+2C90", "U+2C92", "U+2C93", "U+2C92", "U+2C93", "U+2C93", "U+2C92",
      "U+2C94", "U+2C95", "U+2C94", "U+2C95", "U+2C95", "U+2C94", "U+2C96", "U+2C97", "U+2C96", "U+2C97", "U+2C97", "U+2C96",
      "U+2C98", "U+2C99", "U+2C98", "U+2C99", "U+2C99", "U+2C98", "U+2C9A", "U+2C9B", "U+2C9A", "U+2C9B", "U+2C9B", "U+2C9A",
      "U+2C9C", "U+2C9D", "U+2C9C", "U+2C9D", "U+2C9D", "U+2C9C", "U+2C9E", "U+2C9F", "U+2C9E", "U+2C9F", "U+2C9F", "U+2C9E",
      "U+2CA0", "U+2CA1", "U+2CA0", "U+2CA1", "U+2CA1", "U+2CA0", "U+2CA2", "U+2CA3", "U+2CA2", "U+2CA3", "U+2CA3", "U+2CA2",
      "U+2CA4", "U+2CA5", "U+2CA4", "U+2CA5", "U+2CA5", "U+2CA4", "U+2CA6", "U+2CA7", "U+2CA6", "U+2CA7", "U+2CA7", "U+2CA6",
      "U+2CA8", "U+2CA9", "U+2CA8", "U+2CA9", "U+2CA9", "U+2CA8", "U+2CAA", "U+2CAB", "U+2CAA", "U+2CAB", "U+2CAB", "U+2CAA",
      "U+2CAC", "U+2CAD", "U+2CAC", "U+2CAD", "U+2CAD", "U+2CAC", "U+2CAE", "U+2CAF", "U+2CAE", "U+2CAF", "U+2CAF", "U+2CAE",
      "U+2CB0", "U+2CB1", "U+2CB0", "U+2CB1", "U+2CB1", "U+2CB0", "U+2CB2", "U+2CB3", "U+2CB2", "U+2CB3", "U+2CB3", "U+2CB2",
      "U+2CB4", "U+2CB5", "U+2CB4", "U+2CB5", "U+2CB5", "U+2CB4", "U+2CB6", "U+2CB7", "U+2CB6", "U+2CB7", "U+2CB7", "U+2CB6",
      "U+2CB8", "U+2CB9", "U+2CB8", "U+2CB9", "U+2CB9", "U+2CB8", "U+2CBA", "U+2CBB", "U+2CBA", "U+2CBB", "U+2CBB", "U+2CBA",
      "U+2CBC", "U+2CBD", "U+2CBC", "U+2CBD", "U+2CBD", "U+2CBC", "U+2CBE", "U+2CBF", "U+2CBE", "U+2CBF", "U+2CBF", "U+2CBE",
      "U+2CC0", "U+2CC1", "U+2CC0", "U+2CC1", "U+2CC1", "U+2CC0", "U+2CC2", "U+2CC3", "U+2CC2", "U+2CC3", "U+2CC3", "U+2CC2",
      "U+2CC4", "U+2CC5", "U+2CC4", "U+2CC5", "U+2CC5", "U+2CC4", "U+2CC6", "U+2CC7", "U+2CC6", "U+2CC7", "U+2CC7", "U+2CC6",
      "U+2CC8", "U+2CC9", "U+2CC8", "U+2CC9", "U+2CC9", "U+2CC8", "U+2CCA", "U+2CCB", "U+2CCA", "U+2CCB", "U+2CCB", "U+2CCA",
      "U+2CCC", "U+2CCD", "U+2CCC", "U+2CCD", "U+2CCD", "U+2CCC", "U+2CCE", "U+2CCF", "U+2CCE", "U+2CCF", "U+2CCF", "U+2CCE",
      "U+2CD0", "U+2CD1", "U+2CD0", "U+2CD1", "U+2CD1", "U+2CD0", "U+2CD2", "U+2CD3", "U+2CD2", "U+2CD3", "U+2CD3", "U+2CD2",
      "U+2CD4", "U+2CD5", "U+2CD4", "U+2CD5", "U+2CD5", "U+2CD4", "U+2CD6", "U+2CD7", "U+2CD6", "U+2CD7", "U+2CD7", "U+2CD6",
      "U+2CD8", "U+2CD9", "U+2CD8", "U+2CD9", "U+2CD9", "U+2CD8", "U+2CDA", "U+2CDB", "U+2CDA", "U+2CDB", "U+2CDB", "U+2CDA",
      "U+2CDC", "U+2CDD", "U+2CDC", "U+2CDD", "U+2CDD", "U+2CDC", "U+2CDE", "U+2CDF", "U+2CDE", "U+2CDF", "U+2CDF", "U+2CDE",
      "U+2CE0", "U+2CE1", "U+2CE0", "U+2CE1", "U+2CE1", "U+2CE0", "U+2CE2", "U+2CE3", "U+2CE2", "U+2CE3", "U+2CE3", "U+2CE2",
      "U+2CE4", "U+2CE4", "U+2CE4", "U+2CEB", "U+2CEC", "U+2CEB", "U+2CEC", "U+2CEC", "U+2CEB", "U+2CED", "U+2CEE", "U+2CED",
      "U+2CEE", "U+2CEE", "U+2CED", "U+2CF2", "U+2CF3", "U+2CF2", "U+2CF3", "U+2CF3", "U+2CF2", "U+2D00", "U+2D00", "Ⴀ",
      "U+2D01", "U+2D01", "Ⴁ", "U+2D02", "U+2D02", "Ⴂ", "U+2D03", "U+2D03", "Ⴃ", "U+2D04", "U+2D04", "Ⴄ",
      "U+2D05", "U+2D05", "Ⴅ", "U+2D06", "U+2D06", "Ⴆ", "U+2D07", "U+2D07", "Ⴇ", "U+2D08", "U+2D08", "Ⴈ",
      "U+2D09", "U+2D09", "Ⴉ", "U+2D0A", "U+2D0A", "Ⴊ", "U+2D0B", "U+2D0B", "Ⴋ", "U+2D0C", "U+2D0C", "Ⴌ",
      "U+2D0D", "U+2D0D", "Ⴍ", "U+2D0E", "U+2D0E", "Ⴎ", "U+2D0F", "U+2D0F", "Ⴏ", "U+2D10", "U+2D10", "Ⴐ",
      "U+2D11", "U+2D11", "Ⴑ", "U+2D12", "U+2D12", "Ⴒ", "U+2D13", "U+2D13", "Ⴓ", "U+2D14", "U+2D14", "Ⴔ",
      "U+2D15", "U+2D15", "Ⴕ", "U+2D16", "U+2D16", "Ⴖ", "U+2D17", "U+2D17", "Ⴗ", "U+2D18", "U+2D18", "Ⴘ",
      "U+2D19", "U+2D19", "Ⴙ", "U+2D1A", "U+2D1A", "Ⴚ", "U+2D1B", "U+2D1B", "Ⴛ", "U+2D1C", "U+2D1C", "Ⴜ",
      "U+2D1D", "U+2D1D", "Ⴝ", "U+2D1E", "U+2D1E", "Ⴞ", "U+2D1F", "U+2D1F", "Ⴟ", "U+2D20", "U+2D20", "Ⴠ",
      "U+2D21", "U+2D21", "Ⴡ", "U+2D22", "U+2D22", "Ⴢ", "U+2D23", "U+2D23", "Ⴣ", "U+2D24", "U+2D24", "Ⴤ",
      "U+2D25", "U+2D25", "Ⴥ", "U+2D27", "U+2D27", "Ⴧ", "U+2D2D", "U+2D2D", "Ⴭ", "U+A640", "U+A641", "U+A640",
      "U+A641", "U+A641", "U+A640", "U+A642", "U+A643", "U+A642", "U+A643", "U+A643", "U+A642", "U+A644", "U+A645", "U+A644",
      "U+A645", "U+A645", "U+A644", "U+A646", "U+A647", "U+A646", "U+A647", "U+A647", "U+A646", "U+A648", "U+A649", "U+A648",
      "U+A649", "U+A649", "U+A648", "U+A64A", "U+A64B", "U+A64A", "U+A64B", "U+A64B", "U+A64A", "U+A64C", "U+A64D", "U+A64C",
      "U+A64D", "U+A64D", "U+A64C", "U+A64E", "U+A64F", "U+A64E", "U+A64F", "U+A64F", "U+A64E", "U+A650", "U+A651", "U+A650",
      "U+A651", "U+A651", "U+A650", "U+A652", "U+A653", "U+A652", "U+A653", "U+A653", "U+A652", "U+A654", "U+A655", "U+A654",
      "U+A655", "U+A655", "U+A654", "U+A656", "U+A657", "U+A656", "U+A657", "U+A657", "U+A656", "U+A658", "U+A659", "U+A658",
      "U+A659", "U+A659", "U+A658", "U+A65A", "U+A65B", "U+A65A", "U+A65B", "U+A65B", "U+A65A", "U+A65C", "U+A65D", "U+A65C",
      "U+A65D", "U+A65D", "U+A65C", "U+A65E", "U+A65F", "U+A65E", "U+A65F", "U+A65F", "U+A65E", "U+A660", "U+A661", "U+A660",
      "U+A661", "U+A661", "U+A660", "U+A662", "U+A663", "U+A662", "U+A663", "U+A663", "U+A662", "U+A664", "U+A665", "U+A664",
      "U+A665", "U+A665", "U+A664", "U+A666", "U+A667", "U+A666", "U+A667", "U+A667", "U+A666", "U+A668", "U+A669", "U+A668",
      "U+A669", "U+A669", "U+A668", "U+A66A", "U+A66B", "U+A66A", "U+A66B", "U+A66B", "U+A66A", "U+A66C", "U+A66D", "U+A66C",
      "U+A66D", "U+A66D", "U+A66C", "U+A680", "U+A681", "U+A680", "U+A681", "U+A681", "U+A680", "U+A682", "U+A683", "U+A682",
      "U+A683", "U+A683", "U+A682", "U+A684", "U+A685", "U+A684", "U+A685", "U+A685", "U+A684", "U+A686", "U+A687", "U+A686",
      "U+A687", "U+A687", "U+A686", "U+A688", "U+A689", "U+A688", "U+A689", "U+A689", "U+A688", "U+A68A", "U+A68B", "U+A68A",
      "U+A68B", "U+A68B", "U+A68A", "U+A68C", "U+A68D", "U+A68C", "U+A68D", "U+A68D", "U+A68C", "U+A68E", "U+A68F", "U+A68E",
      "U+A68F", "U+A68F", "U+A68E", "U+A690", "U+A691", "U+A690", "U+A691", "U+A691", "U+A690", "U+A692", "U+A693", "U+A692",
      "U+A693", "U+A693", "U+A692", "U+A694", "U+A695", "U+A694", "U+A695", "U+A695", "U+A694", "U+A696", "U+A697", "U+A696",
      "U+A697", "U+A697", "U+A696", "U+A698", "U+A699", "U+A698", "U+A699", "U+A699", "U+A698", "U+A69A", "U+A69B", "U+A69A",
      "U+A69B", "U+A69B", "U+A69A", "U+A69C", "U+A69C", "U+A69C", "U+A69D", "U+A69D", "U+A69D", "U+A722", "U+A723", "U+A722",
      "U+A723", "U+A723", "U+A722", "U+A724", "U+A725", "U+A724", "U+A725", "U+A725", "U+A724", "U+A726", "U+A727", "U+A726",
      "U+A727", "U+A727", "U+A726", "U+A728", "U+A729", "U+A728", "U+A729", "U+A729", "U+A728", "U+A72A", "U+A72B", "U+A72A",
      "U+A72B", "U+A72B", "U+A72A", "U+A72C", "U+A72D", "U+A72C", "U+A72D", "U+A72D", "U+A72C", "U+A72E", "U+A72F", "U+A72E",
      "U+A72F", "U+A72F", "U+A72E", "U+A730", "U+A730", "U+A730", "U+A731", "U+A731", "U+A731", "U+A732", "U+A733", "U+A732",
      "U+A733", "U+A733", "U+A732", "U+A734", "U+A735", "U+A734", "U+A735", "U+A735", "U+A734", "U+A736", "U+A737", "U+A736",
      "U+A737", "U+A737", "U+A736", "U+A738", "U+A739", "U+A738", "U+A739", "U+A739", "U+A738", "U+A73A", "U+A73B", "U+A73A",
      "U+A73B", "U+A73B", "U+A73A", "U+A73C", "U+A73D", "U+A73C", "U+A73D", "U+A73D", "U+A73C", "U+A73E", "U+A73F", "U+A73E",
      "U+A73F", "U+A73F", "U+A73E", "U+A740", "U+A741", "U+A740", "U+A741", "U+A741", "U+A740", "U+A742", "U+A743", "U+A742",
      "U+A743", "U+A743", "U+A742", "U+A744", "U+A745", "U+A744", "U+A745", "U+A745", "U+A744", "U+A746", "U+A747", "U+A746",
      "U+A747", "U+A747", "U+A746", "U+A748", "U+A749", "U+A748", "U+A749", "U+A749", "U+A748", "U+A74A", "U+A74B", "U+A74A",
      "U+A74B", "U+A74B", "U+A74A", "U+A74C", "U+A74D", "U+A74C", "U+A74D", "U+A74D", "U+A74C", "U+A74E", "U+A74F", "U+A74E",
      "U+A74F", "U+A74F", "U+A74E", "U+A750", "U+A751", "U+A750", "U+A751", "U+A751", "U+A750", "U+A752", "U+A753", "U+A752",
      "U+A753", "U+A753", "U+A752", "U+A754", "U+A755", "U+A754", "U+A755", "U+A755", "U+A754", "U+A756", "U+A757", "U+A756",
      "U+A757", "U+A757", "U+A756", "U+A758", "U+A759", "U+A758", "U+A759", "U+A759", "U+A758", "U+A75A", "U+A75B", "U+A75A",
      "U+A75B", "U+A75B", "U+A75A", "U+A75C", "U+A75D", "U+A75C", "U+A75D", "U+A75D", "U+A75C", "U+A75E", "U+A75F", "U+A75E",
      "U+A75F", "U+A75F", "U+A75E", "U+A760", "U+A761", "U+A760", "U+A761", "U+A761", "U+A760", "U+A762", "U+A763", "U+A762",
      "U+A763", "U+A763", "U+A762", "U+A764", "U+A765", "U+A764", "U+A765", "U+A765", "U+A764", "U+A766", "U+A767", "U+A766",
      "U+A767", "U+A767", "U+A766", "U+A768", "U+A769", "U+A768", "U+A769", "U+A769", "U+A768", "U+A76A", "U+A76B", "U+A76A",
      "U+A76B", "U+A76B", "U+A76A", "U+A76C", "U+A76D", "U+A76C", "U+A76D", "U+A76D", "U+A76C", "U+A76E", "U+A76F", "U+A76E",
      "U+A76F", "U+A76F", "U+A76E", "U+A770", "U+A770", "U+A770", "U+A771", "U+A771", "U+A771", "U+A772", "U+A772", "U+A772",
      "U+A773", "U+A773", "U+A773", "U+A774", "U+A774", "U+A774", "U+A775", "U+A775", "U+A775", "U+A776", "U+A776", "U+A776",
      "U+A777", "U+A777", "U+A777", "U+A778", "U+A778", "U+A778", "U+A779", "U+A77A", "U+A779", "U+A77A", "U+A77A", "U+A779",
      "U+A77B", "U+A77C", "U+A77B", "U+A77C", "U+A77C", "U+A77B", "U+A77D", "U+1D79", "U+A77D", "U+A77E", "U+A77F", "U+A77E",
      "U+A77F", "U+A77F", "U+A77E", "U+A780", "U+A781", "U+A780", "U+A781", "U+A781", "U+A780", "U+A782", "U+A783", "U+A782",
      "U+A783", "U+A783", "U+A782", "U+A784", "U+A785", "U+A784", "U+A785", "U+A785", "U+A784", "U+A786", "U+A787", "U+A786",
      "U+A787", "U+A787", "U+A786", "U+A78B", "U+A78C", "U+A78B", "U+A78C", "U+A78C", "U+A78B", "U+A78D", "U+0265", "U+A78D",
      "U+A78E", "U+A78E", "U+A78E", "U+A790", "U+A791", "U+A790", "U+A791", "U+A791", "U+A790", "U+A792", "U+A793", "U+A792",
      "U+A793", "U+A793", "U+A792", "U+A794", "U+A794", "U+A7C4", "U+A795", "U+A795", "U+A795", "U+A796", "U+A797", "U+A796",
      "U+A797", "U+A797", "U+A796", "U+A798", "U+A799", "U+A798", "U+A799", "U+A799", "U+A798", "U+A79A", "U+A79B", "U+A79A",
      "U+A79B", "U+A79B", "U+A79A", "U+A79C", "U+A79D", "U+A79C", "U+A79D", "U+A79D", "U+A79C", "U+A79E", "U+A79F", "U+A79E",
      "U+A79F", "U+A79F", "U+A79E", "U+A7A0", "U+A7A1", "U+A7A0", "U+A7A1", "U+A7A1", "U+A7A0", "U+A7A2", "U+A7A3", "U+A7A2",
      "U+A7A3", "U+A7A3", "U+A7A2", "U+A7A4", "U+A7A5", "U+A7A4", "U+A7A5", "U+A7A5", "U+A7A4", "U+A7A6", "U+A7A7", "U+A7A6",
      "U+A7A7", "U+A7A7", "U+A7A6", "U+A7A8", "U+A7A9", "U+A7A8", "U+A7A9", "U+A7A9", "U+A7A8", "U+A7AA", "U+0266", "U+A7AA",
      "U+A7AB", "U+025C", "U+A7AB", "U+A7AC", "U+0261", "U+A7AC", "U+A7AD", "U+026C", "U+A7AD", "U+A7AE", "U+026A", "U+A7AE",
      "U+A7AF", "U+A7AF", "U+A7AF", "U+A7B0", "ʞ", "U+A7B0", "U+A7B1", "ʇ", "U+A7B1", "U+A7B2", "ʝ", "U+A7B2",
      "U+A7B3", "U+AB53", "U+A7B3", "U+A7B4", "U+A7B5", "U+A7B4", "U+A7B5", "U+A7B5", "U+A7B4", "U+A7B6", "U+A7B7", "U+A7B6",
      "U+A7B7", "U+A7B7", "U+A7B6", "U+A7B8", "U+A7B9", "U+A7B8", "U+A7B9", "U+A7B9", "U+A7B8", "U+A7BA", "U+A7BB", "U+A7BA",
      "U+A7BB", "U+A7BB", "U+A7BA", "U+A7BC", "U+A7BD", "U+A7BC", "U+A7BD", "U+A7BD", "U+A7BC", "U+A7BE", "U+A7BF", "U+A7BE",
      "U+A7BF", "U+A7BF", "U+A7BE", "U+A7C0", "U+A7C1", "U+A7C0", "U+A7C1", "U+A7C1", "U+A7C0", "U+A7C2", "U+A7C3", "U+A7C2",
      "U+A7C3", "U+A7C3", "U+A7C2", "U+A7C4", "U+A794", "U+A7C4", "U+A7C5", "ʂ", "U+A7C5", "U+A7C6", "ᶎ", "U+A7C6",
      "U+A7C7", "U+A7C8", "U+A7C7", "U+A7C8", "U+A7C8", "U+A7C7", "U+A7C9", "U+A7CA", "U+A7C9", "U+A7CA", "U+A7CA", "U+A7C9",
      "U+A7D0", "U+A7D1", "U+A7D0", "U+A7D1", "U+A7D1", "U+A7D0", "U+A7D3", "U+A7D3", "U+A7D3", "U+A7D5", "U+A7D5", "U+A7D5",
      "U+A7D6", "U+A7D7", "U+A7D6", "U+A7D7", "U+A7D7", "U+A7D6", "U+A7D8", "U+A7D9", "U+A7D8", "U+A7D9", "U+A7D9", "U+A7D8",
      "U+A7F5", "U+A7F6", "U+A7F5", "U+A7F6", "U+A7F6", "U+A7F5", "U+A7F8", "U+A7F8", "U+A7F8", "U+A7F9", "U+A7F9", "U+A7F9",
      "U+A7FA", "U+A7FA", "U+A7FA", "U+AB30", "U+AB30", "U+AB30", "U+AB31", "U+AB31", "U+AB31", "U+AB32", "U+AB32", "U+AB32",
      "U+AB33", "U+AB33", "U+AB33", "U+AB34", "U+AB34", "U+AB34", "U+AB35", "U+AB35", "U+AB35", "U+AB36", "U+AB36", "U+AB36",
      "U+AB37", "U+AB37", "U+AB37", "U+AB38", "U+AB38", "U+AB38", "U+AB39", "U+AB39", "U+AB39", "U+AB3A", "U+AB3A", "U+AB3A",
      "U+AB3B", "U+AB3B", "U+AB3B", "U+AB3C", "U+AB3C", "U+AB3C", "U+AB3D", "U+AB3D", "U+AB3D", "U+AB3E", "U+AB3E", "U+AB3E",
      "U+AB3F", "U+AB3F", "U+AB3F", "U+AB40", "U+AB40", "U+AB40", "U+AB41", "U+AB41", "U+AB41", "U+AB42", "U+AB42", "U+AB42",
      "U+AB43", "U+AB43", "U+AB43", "U+AB44", "U+AB44", "U+AB44", "U+AB45", "U+AB45", "U+AB45", "U+AB46", "U+AB46", "U+AB46",
      "U+AB47", "U+AB47", "U+AB47", "U+AB48", "U+AB48", "U+AB48", "U+AB49", "U+AB49", "U+AB49", "U+AB4A", "U+AB4A", "U+AB4A",
      "U+AB4B", "U+AB4B", "U+AB4B", "U+AB4C", "U+AB4C", "U+AB4C", "U+AB4D", "U+AB4D", "U+AB4D", "U+AB4E", "U+AB4E", "U+AB4E",
      "U+AB4F", "U+AB4F", "U+AB4F", "U+AB50", "U+AB50", "U+AB50", "U+AB51", "U+AB51", "U+AB51", "U+AB52", "U+AB52", "U+AB52",
      "U+AB53", "U+AB53", "U+A7B3", "U+AB54", "U+AB54", "U+AB54", "U+AB55", "U+AB55", "U+AB55", "U+AB56", "U+AB56", "U+AB56",
      "U+AB57", "U+AB57", "U+AB57", "U+AB58", "U+AB58", "U+AB58", "U+AB59", "U+AB59", "U+AB59", "U+AB5A", "U+AB5A", "U+AB5A",
      "U+AB5C", "U+AB5C", "U+AB5C", "U+AB5D", "U+AB5D", "U+AB5D", "U+AB5E", "U+AB5E", "U+AB5E", "U+AB5F", "U+AB5F", "U+AB5F",
      "U+AB60", "U+AB60", "U+AB60", "U+AB61", "U+AB61", "U+AB61", "U+AB62", "U+AB62", "U+AB62", "U+AB63", "U+AB63", "U+AB63",
      "U+AB64", "U+AB64", "U+AB64", "U+AB65", "U+AB65", "U+AB65", "U+AB66", "U+AB66", "U+AB66", "U+AB67", "U+AB67", "U+AB67",
      "U+AB68", "U+AB68", "U+AB68", "U+AB70", "U+AB70", "Ꭰ", "U+AB71", "U+AB71", "Ꭱ", "U+AB72", "U+AB72", "Ꭲ",
      "U+AB73", "U+AB73", "Ꭳ", "U+AB74", "U+AB74", "Ꭴ", "U+AB75", "U+AB75", "Ꭵ", "U+AB76", "U+AB76", "Ꭶ",
      "U+AB77", "U+AB77", "Ꭷ", "U+AB78", "U+AB78", "Ꭸ", "U+AB79", "U+AB79", "Ꭹ", "U+AB7A", "U+AB7A", "Ꭺ",
      "U+AB7B", "U+AB7B", "Ꭻ", "U+AB7C", "U+AB7C", "Ꭼ", "U+AB7D", "U+AB7D", "Ꭽ", "U+AB7E", "U+AB7E", "Ꭾ",
      "U+AB7F", "U+AB7F", "Ꭿ", "U+AB80", "U+AB80", "Ꮀ", "U+AB81", "U+AB81", "Ꮁ", "U+AB82", "U+AB82", "Ꮂ",
      "U+AB83", "U+AB83", "Ꮃ", "U+AB84", "U+AB84", "Ꮄ", "U+AB85", "U+AB85", "Ꮅ", "U+AB86", "U+AB86", "Ꮆ",
      "U+AB87", "U+AB87", "Ꮇ", "U+AB88", "U+AB88", "Ꮈ", "U+AB89", "U+AB89", "Ꮉ", "U+AB8A", "U+AB8A", "Ꮊ",
      "U+AB8B", "U+AB8B", "Ꮋ", "U+AB8C", "U+AB8C", "Ꮌ", "U+AB8D", "U+AB8D", "Ꮍ", "U+AB8E", "U+AB8E", "Ꮎ",
      "U+AB8F", "U+AB8F", "Ꮏ", "U+AB90", "U+AB90", "Ꮐ", "U+AB91", "U+AB91", "Ꮑ", "U+AB92", "U+AB92", "Ꮒ",
      "U+AB93", "U+AB93", "Ꮓ", "U+AB94", "U+AB94", "Ꮔ", "U+AB95", "U+AB95", "Ꮕ", "U+AB96", "U+AB96", "Ꮖ",
      "U+AB97", "U+AB97", "Ꮗ", "U+AB98", "U+AB98", "Ꮘ", "U+AB99", "U+AB99", "Ꮙ", "U+AB9A", "U+AB9A", "Ꮚ",
      "U+AB9B", "U+AB9B", "Ꮛ", "U+AB9C", "U+AB9C", "Ꮜ", "U+AB9D", "U+AB9D", "Ꮝ", "U+AB9E", "U+AB9E", "Ꮞ",
      "U+AB9F", "U+AB9F", "Ꮟ", "U+ABA0", "U+ABA0", "Ꮠ", "U+ABA1", "U+ABA1", "Ꮡ", "U+ABA2", "U+ABA2", "Ꮢ",
      "U+ABA3", "U+ABA3", "Ꮣ", "U+ABA4", "U+ABA4", "Ꮤ", "U+ABA5", "U+ABA5", "Ꮥ", "U+ABA6", "U+ABA6", "Ꮦ",
      "U+ABA7", "U+ABA7", "Ꮧ", "U+ABA8", "U+ABA8", "Ꮨ", "U+ABA9", "U+ABA9", "Ꮩ", "U+ABAA", "U+ABAA", "Ꮪ",
      "U+ABAB", "U+ABAB", "Ꮫ", "U+ABAC", "U+ABAC", "Ꮬ", "U+ABAD", "U+ABAD", "Ꮭ", "U+ABAE", "U+ABAE", "Ꮮ",
      "U+ABAF", "U+ABAF", "Ꮯ", "U+ABB0", "U+ABB0", "Ꮰ", "U+ABB1", "U+ABB1", "Ꮱ", "U+ABB2", "U+ABB2", "Ꮲ",
      "U+ABB3", "U+ABB3", "Ꮳ", "U+ABB4", "U+ABB4", "Ꮴ", "U+ABB5", "U+ABB5", "Ꮵ", "U+ABB6", "U+ABB6", "Ꮶ",
      "U+ABB7", "U+ABB7", "Ꮷ", "U+ABB8", "U+ABB8", "Ꮸ", "U+ABB9", "U+ABB9", "Ꮹ", "U+ABBA", "U+ABBA", "Ꮺ",
      "U+ABBB", "U+ABBB", "Ꮻ", "U+ABBC", "U+ABBC", "Ꮼ", "U+ABBD", "U+ABBD", "Ꮽ", "U+ABBE", "U+ABBE", "Ꮾ",
      "U+ABBF", "U+ABBF", "Ꮿ", "U+FF21", "U+FF41", "U+FF21", "U+FF22", "U+FF42", "U+FF22", "U+FF23", "U+FF43", "U+FF23",
      "U+FF24", "U+FF44", "U+FF24", "U+FF25", "U+FF45", "U+FF25", "U+FF26", "U+FF46", "U+FF26", "U+FF27", "U+FF47", "U+FF27",
      "U+FF28", "U+FF48", "U+FF28", "U+FF29", "U+FF49", "U+FF29", "U+FF2A", "U+FF4A", "U+FF2A", "U+FF2B", "U+FF4B", "U+FF2B",
      "U+FF2C", "U+FF4C", "U+FF2C", "U+FF2D", "U+FF4D", "U+FF2D", "U+FF2E", "U+FF4E", "U+FF2E", "U+FF2F", "U+FF4F", "U+FF2F",
      "U+FF30", "U+FF50", "U+FF30", "U+FF31", "U+FF51", "U+FF31", "U+FF32", "U+FF52", "U+FF32", "U+FF33", "U+FF53", "U+FF33",
      "U+FF34", "U+FF54", "U+FF34", "U+FF35", "U+FF55", "U+FF35", "U+FF36", "U+FF56", "U+FF36", "U+FF37", "U+FF57", "U+FF37",
      "U+FF38", "U+FF58", "U+FF38", "U+FF39", "U+FF59", "U+FF39", "U+FF3A", "U+FF5A", "U+FF3A", "U+FF41", "U+FF41", "U+FF21",
      "U+FF42", "U+FF42", "U+FF22", "U+FF43", "U+FF43", "U+FF23", "U+FF44", "U+FF44", "U+FF24", "U+FF45", "U+FF45", "U+FF25",
      "U+FF46", "U+FF46", "U+FF26", "U+FF47", "U+FF47", "U+FF27", "U+FF48", "U+FF48", "U+FF28", "U+FF49", "U+FF49", "U+FF29",
      "U+FF4A", "U+FF4A", "U+FF2A", "U+FF4B", "U+FF4B", "U+FF2B", "U+FF4C", "U+FF4C", "U+FF2C", "U+FF4D", "U+FF4D", "U+FF2D",
      "U+FF4E", "U+FF4E", "U+FF2E", "U+FF4F", "U+FF4F", "U+FF2F", "U+FF50", "U+FF50", "U+FF30", "U+FF51", "U+FF51", "U+FF31",
      "U+FF52", "U+FF52", "U+FF32", "U+FF53", "U+FF53", "U+FF33", "U+FF54", "U+FF54", "U+FF34", "U+FF55", "U+FF55", "U+FF35",
      "U+FF56", "U+FF56", "U+FF36", "U+FF57", "U+FF57", "U+FF37", "U+FF58", "U+FF58", "U+FF38", "U+FF59", "U+FF59", "U+FF39",
      "U+FF5A", "U+FF5A", "U+FF3A", "U+10400", "U+10428", "U+10400", "U+10401", "U+10429", "U+10401", "U+10402", "U+1042A", "U+10402",
      "U+10403", "U+1042B", "U+10403", "U+10404", "U+1042C", "U+10404", "U+10405", "U+1042D", "U+10405", "U+10406", "U+1042E", "U+10406",
      "U+10407", "U+1042F", "U+10407", "U+10408", "U+10430", "U+10408", "U+10409", "U+10431", "U+10409", "U+1040A", "U+10432", "U+1040A",
      "U+1040B", "U+10433", "U+1040B", "U+1040C", "U+10434", "U+1040C", "U+1040D", "U+10435", "U+1040D", "U+1040E", "U+10436", "U+1040E",
      "U+1040F", "U+10437", "U+1040F", "U+10410", "U+10438", "U+10410", "U+10411", "U+10439", "U+10411", "U+10412", "U+1043A", "U+10412",
      "U+10413", "U+1043B", "U+10413", "U+10414", "U+1043C", "U+10414", "U+10415", "U+1043D", "U+10415", "U+10416", "U+1043E", "U+10416",
      "U+10417", "U+1043F", "U+10417", "U+10418", "U+10440", "U+10418", "U+10419", "U+10441", "U+10419", "U+1041A", "U+10442", "U+1041A",
      "U+1041B", "U+10443", "U+1041B", "U+1041C", "U+10444", "U+1041C", "U+1041D", "U+10445", "U+1041D", "U+1041E", "U+10446", "U+1041E",
      "U+1041F", "U+10447", "U+1041F", "U+10420", "U+10448", "U+10420", "U+10421", "U+10449", "U+10421", "U+10422", "U+1044A", "U+10422",
      "U+10423", "U+1044B", "U+10423", "U+10424", "U+1044C", "U+10424", "U+10425", "U+1044D", "U+10425", "U+10426", "U+1044E", "U+10426",
      "U+10427", "U+1044F", "U+10427", "U+10428", "U+10428", "U+10400", "U+10429", "U+10429", "U+10401", "U+1042A", "U+1042A", "U+10402",
      "U+1042B", "U+1042B", "U+10403", "U+1042C", "U+1042C", "U+10404", "U+1042D", "U+1042D", "U+10405", "U+1042E", "U+1042E", "U+10406",
      "U+1042F", "U+1042F", "U+10407", "U+10430", "U+10430", "U+10408", "U+10431", "U+10431", "U+10409", "U+10432", "U+10432", "U+1040A",
      "U+10433", "U+10433", "U+1040B", "U+10434", "U+10434", "U+1040C", "U+10435", "U+10435", "U+1040D", "U+10436", "U+10436", "U+1040E",
      "U+10437", "U+10437", "U+1040F", "U+10438", "U+10438", "U+10410", "U+10439", "U+10439", "U+10411", "U+1043A", "U+1043A", "U+10412",
      "U+1043B", "U+1043B", "U+10413", "U+1043C", "U+1043C", "U+10414", "U+1043D", "U+1043D", "U+10415", "U+1043E", "U+1043E", "U+10416",
      "U+1043F", "U+1043F", "U+10417", "U+10440", "U+10440", "U+10418", "U+10441", "U+10441", "U+10419", "U+10442", "U+10442", "U+1041A",
      "U+10443", "U+10443", "U+1041B", "U+10444", "U+10444", "U+1041C", "U+10445", "U+10445", "U+1041D", "U+10446", "U+10446", "U+1041E",
      "U+10447", "U+10447", "U+1041F", "U+10448", "U+10448", "U+10420", "U+10449", "U+10449", "U+10421", "U+1044A", "U+1044A", "U+10422",
      "U+1044B", "U+1044B", "U+10423", "U+1044C", "U+1044C", "U+10424", "U+1044D", "U+1044D", "U+10425", "U+1044E", "U+1044E", "U+10426",
      "U+1044F", "U+1044F", "U+10427", "U+104B0", "U+104D8", "U+104B0", "U+104B1", "U+104D9", "U+104B1", "U+104B2", "U+104DA", "U+104B2",
      "U+104B3", "U+104DB", "U+104B3", "U+104B4", "U+104DC", "U+104B4", "U+104B5", "U+104DD", "U+104B5", "U+104B6", "U+104DE", "U+104B6",
      "U+104B7", "U+104DF", "U+104B7", "U+104B8", "U+104E0", "U+104B8", "U+104B9", "U+104E1", "U+104B9", "U+104BA", "U+104E2", "U+104BA",
      "U+104BB", "U+104E3", "U+104BB", "U+104BC", "U+104E4", "U+104BC", "U+104BD", "U+104E5", "U+104BD", "U+104BE", "U+104E6", "U+104BE",
      "U+104BF", "U+104E7", "U+104BF", "U+104C0", "U+104E8", "U+104C0", "U+104C1", "U+104E9", "U+104C1", "U+104C2", "U+104EA", "U+104C2",
      "U+104C3", "U+104EB", "U+104C3", "U+104C4", "U+104EC", "U+104C4", "U+104C5", "U+104ED", "U+104C5", "U+104C6", "U+104EE", "U+104C6",
      "U+104C7", "U+104EF", "U+104C7", "U+104C8", "U+104F0", "U+104C8", "U+104C9", "U+104F1", "U+104C9", "U+104CA", "U+104F2", "U+104CA",
      "U+104CB", "U+104F3", "U+104CB", "U+104CC", "U+104F4", "U+104CC", "U+104CD", "U+104F5", "U+104CD", "U+104CE", "U+104F6", "U+104CE",
      "U+104CF", "U+104F7", "U+104CF", "U+104D0", "U+104F8", "U+104D0", "U+104D1", "U+104F9", "U+104D1", "U+104D2", "U+104FA", "U+104D2",
      "U+104D3", "U+104FB", "U+104D3", "U+104D8", "U+104D8", "U+104B0", "U+104D9", "U+104D9", "U+104B1", "U+104DA", "U+104DA", "U+104B2",
      "U+104DB", "U+104DB", "U+104B3", "U+104DC", "U+104DC", "U+104B4", "U+104DD", "U+104DD", "U+104B5", "U+104DE", "U+104DE", "U+104B6",
      "U+104DF", "U+104DF", "U+104B7", "U+104E0", "U+104E0", "U+104B8", "U+104E1", "U+104E1", "U+104B9", "U+104E2", "U+104E2", "U+104BA",
      "U+104E3", "U+104E3", "U+104BB", "U+104E4", "U+104E4", "U+104BC", "U+104E5", "U+104E5", "U+104BD", "U+104E6", "U+104E6", "U+104BE",
      "U+104E7", "U+104E7", "U+104BF", "U+104E8", "U+104E8", "U+104C0", "U+104E9", "U+104E9", "U+104C1", "U+104EA", "U+104EA", "U+104C2",
      "U+104EB", "U+104EB", "U+104C3", "U+104EC", "U+104EC", "U+104C4", "U+104ED", "U+104ED", "U+104C5", "U+104EE", "U+104EE", "U+104C6",
      "U+104EF", "U+104EF", "U+104C7", "U+104F0", "U+104F0", "U+104C8", "U+104F1", "U+104F1", "U+104C9", "U+104F2", "U+104F2", "U+104CA",
      "U+104F3", "U+104F3", "U+104CB", "U+104F4", "U+104F4", "U+104CC", "U+104F5", "U+104F5", "U+104CD", "U+104F6", "U+104F6", "U+104CE",
      "U+104F7", "U+104F7", "U+104CF", "U+104F8", "U+104F8", "U+104D0", "U+104F9", "U+104F9", "U+104D1", "U+104FA", "U+104FA", "U+104D2",
      "U+104FB", "U+104FB", "U+104D3", "U+10570", "U+10597", "U+10570", "U+10571", "U+10598", "U+10571", "U+10572", "U+10599", "U+10572",
      "U+10573", "U+1059A", "U+10573", "U+10574", "U+1059B", "U+10574", "U+10575", "U+1059C", "U+10575", "U+10576", "U+1059D", "U+10576",
      "U+10577", "U+1059E", "U+10577", "U+10578", "U+1059F", "U+10578", "U+10579", "U+105A0", "U+10579", "U+1057A", "U+105A1", "U+1057A",
      "U+1057C", "U+105A3", "U+1057C", "U+1057D", "U+105A4", "U+1057D", "U+1057E", "U+105A5", "U+1057E", "U+1057F", "U+105A6", "U+1057F",
      "U+10580", "U+105A7", "U+10580", "U+10581", "U+105A8", "U+10581", "U+10582", "U+105A9", "U+10582", "U+10583", "U+105AA", "U+10583",
      "U+10584", "U+105AB", "U+10584", "U+10585", "U+105AC", "U+10585", "U+10586", "U+105AD", "U+10586", "U+10587", "U+105AE", "U+10587",
      "U+10588", "U+105AF", "U+10588", "U+10589", "U+105B0", "U+10589", "U+1058A", "U+105B1", "U+1058A", "U+1058C", "U+105B3", "U+1058C",
      "U+1058D", "U+105B4", "U+1058D", "U+1058E", "U+105B5", "U+1058E", "U+1058F", "U+105B6", "U+1058F", "U+10590", "U+105B7", "U+10590",
      "U+10591", "U+105B8", "U+10591", "U+10592", "U+105B9", "U+10592", "U+10594", "U+105BB", "U+10594", "U+10595", "U+105BC", "U+10595",
      "U+10597", "U+10597", "U+10570", "U+10598", "U+10598", "U+10571", "U+10599", "U+10599", "U+10572", "U+1059A", "U+1059A", "U+10573",
      "U+1059B", "U+1059B", "U+10574", "U+1059C", "U+1059C", "U+10575", "U+1059D", "U+1059D", "U+10576", "U+1059E", "U+1059E", "U+10577",
      "U+1059F", "U+1059F", "U+10578", "U+105A0", "U+105A0", "U+10579", "U+105A1", "U+105A1", "U+1057A", "U+105A3", "U+105A3", "U+1057C",
      "U+105A4", "U+105A4", "U+1057D", "U+105A5", "U+105A5", "U+1057E", "U+105A6", "U+105A6", "U+1057F", "U+105A7", "U+105A7", "U+10580",
      "U+105A8", "U+105A8", "U+10581", "U+105A9", "U+105A9", "U+10582", "U+105AA", "U+105AA", "U+10583", "U+105AB", "U+105AB", "U+10584",
      "U+105AC", "U+105AC", "U+10585", "U+105AD", "U+105AD", "U+10586", "U+105AE", "U+105AE", "U+10587", "U+105AF", "U+105AF", "U+10588",
      "U+105B0", "U+105B0", "U+10589", "U+105B1", "U+105B1", "U+1058A", "U+105B3", "U+105B3", "U+1058C", "U+105B4", "U+105B4", "U+1058D",
      "U+105B5", "U+105B5", "U+1058E", "U+105B6", "U+105B6", "U+1058F", "U+105B7", "U+105B7", "U+10590", "U+105B8", "U+105B8", "U+10591",
      "U+105B9", "U+105B9", "U+10592", "U+105BB", "U+105BB", "U+10594", "U+105BC", "U+105BC", "U+10595", "U+10780", "U+10780", "U+10780",
      "U+10783", "U+10783", "U+10783", "U+10784", "U+10784", "U+10784", "U+10785", "U+10785", "U+10785", "U+10787", "U+10787", "U+10787",
      "U+10788", "U+10788", "U+10788", "U+10789", "U+10789", "U+10789", "U+1078A", "U+1078A", "U+1078A", "U+1078B", "U+1078B", "U+1078B",
      "U+1078C", "U+1078C", "U+1078C", "U+1078D", "U+1078D", "U+1078D", "U+1078E", "U+1078E", "U+1078E", "U+1078F", "U+1078F", "U+1078F",
      "U+10790", "U+10790", "U+10790", "U+10791", "U+10791", "U+10791", "U+10792", "U+10792", "U+10792", "U+10793", "U+10793", "U+10793",
      "U+10794", "U+10794", "U+10794", "U+10795", "U+10795", "U+10795", "U+10796", "U+10796", "U+10796", "U+10797", "U+10797", "U+10797",
      "U+10798", "U+10798", "U+10798", "U+10799", "U+10799", "U+10799", "U+1079A", "U+1079A", "U+1079A", "U+1079B", "U+1079B", "U+1079B",
      "U+1079C", "U+1079C", "U+1079C", "U+1079D", "U+1079D", "U+1079D", "U+1079E", "U+1079E", "U+1079E", "U+1079F", "U+1079F", "U+1079F",
      "U+107A0", "U+107A0", "U+107A0", "U+107A1", "U+107A1", "U+107A1", "U+107A2", "U+107A2", "U+107A2", "U+107A3", "U+107A3", "U+107A3",
      "U+107A4", "U+107A4", "U+107A4", "U+107A5", "U+107A5", "U+107A5", "U+107A6", "U+107A6", "U+107A6", "U+107A7", "U+107A7", "U+107A7",
      "U+107A8", "U+107A8", "U+107A8", "U+107A9", "U+107A9", "U+107A9", "U+107AA", "U+107AA", "U+107AA", "U+107AB", "U+107AB", "U+107AB",
      "U+107AC", "U+107AC", "U+107AC", "U+107AD", "U+107AD", "U+107AD", "U+107AE", "U+107AE", "U+107AE", "U+107AF", "U+107AF", "U+107AF",
      "U+107B0", "U+107B0", "U+107B0", "U+107B2", "U+107B2", "U+107B2", "U+107B3", "U+107B3", "U+107B3", "U+107B4", "U+107B4", "U+107B4",
      "U+107B5", "U+107B5", "U+107B5", "U+107B6", "U+107B6", "U+107B6", "U+107B7", "U+107B7", "U+107B7", "U+107B8", "U+107B8", "U+107B8",
      "U+107B9", "U+107B9", "U+107B9", "U+107BA", "U+107BA", "U+107BA", "U+10C80", "U+10CC0", "U+10C80", "U+10C81", "U+10CC1", "U+10C81",
      "U+10C82", "U+10CC2", "U+10C82", "U+10C83", "U+10CC3", "U+10C83", "U+10C84", "U+10CC4", "U+10C84", "U+10C85", "U+10CC5", "U+10C85",
      "U+10C86", "U+10CC6", "U+10C86", "U+10C87", "U+10CC7", "U+10C87", "U+10C88", "U+10CC8", "U+10C88", "U+10C89", "U+10CC9", "U+10C89",
      "U+10C8A", "U+10CCA", "U+10C8A", "U+10C8B", "U+10CCB", "U+10C8B", "U+10C8C", "U+10CCC", "U+10C8C", "U+10C8D", "U+10CCD", "U+10C8D",
      "U+10C8E", "U+10CCE", "U+10C8E", "U+10C8F", "U+10CCF", "U+10C8F", "U+10C90", "U+10CD0", "U+10C90", "U+10C91", "U+10CD1", "U+10C91",
      "U+10C92", "U+10CD2", "U+10C92", "U+10C93", "U+10CD3", "U+10C93", "U+10C94", "U+10CD4", "U+10C94", "U+10C95", "U+10CD5", "U+10C95",
      "U+10C96", "U+10CD6", "U+10C96", "U+10C97", "U+10CD7", "U+10C97", "U+10C98", "U+10CD8", "U+10C98", "U+10C99", "U+10CD9", "U+10C99",
      "U+10C9A", "U+10CDA", "U+10C9A", "U+10C9B", "U+10CDB", "U+10C9B", "U+10C9C", "U+10CDC", "U+10C9C", "U+10C9D", "U+10CDD", "U+10C9D",
      "U+10C9E", "U+10CDE", "U+10C9E", "U+10C9F", "U+10CDF", "U+10C9F", "U+10CA0", "U+10CE0", "U+10CA0", "U+10CA1", "U+10CE1", "U+10CA1",
      "U+10CA2", "U+10CE2", "U+10CA2", "U+10CA3", "U+10CE3", "U+10CA3", "U+10CA4", "U+10CE4", "U+10CA4", "U+10CA5", "U+10CE5", "U+10CA5",
      "U+10CA6", "U+10CE6", "U+10CA6", "U+10CA7", "U+10CE7", "U+10CA7", "U+10CA8", "U+10CE8", "U+10CA8", "U+10CA9", "U+10CE9", "U+10CA9",
      "U+10CAA", "U+10CEA", "U+10CAA", "U+10CAB", "U+10CEB", "U+10CAB", "U+10CAC", "U+10CEC", "U+10CAC", "U+10CAD", "U+10CED", "U+10CAD",
      "U+10CAE", "U+10CEE", "U+10CAE", "U+10CAF", "U+10CEF", "U+10CAF", "U+10CB0", "U+10CF0", "U+10CB0", "U+10CB1", "U+10CF1", "U+10CB1",
      "U+10CB2", "U+10CF2", "U+10CB2", "U+10CC0", "U+10CC0", "U+10C80", "U+10CC1", "U+10CC1", "U+10C81", "U+10CC2", "U+10CC2", "U+10C82",
      "U+10CC3", "U+10CC3", "U+10C83", "U+10CC4", "U+10CC4", "U+10C84", "U+10CC5", "U+10CC5", "U+10C85", "U+10CC6", "U+10CC6", "U+10C86",
      "U+10CC7", "U+10CC7", "U+10C87", "U+10CC8", "U+10CC8", "U+10C88", "U+10CC9", "U+10CC9", "U+10C89", "U+10CCA", "U+10CCA", "U+10C8A",
      "U+10CCB", "U+10CCB", "U+10C8B", "U+10CCC", "U+10CCC", "U+10C8C", "U+10CCD", "U+10CCD", "U+10C8D", "U+10CCE", "U+10CCE", "U+10C8E",
      "U+10CCF", "U+10CCF", "U+10C8F", "U+10CD0", "U+10CD0", "U+10C90", "U+10CD1", "U+10CD1", "U+10C91", "U+10CD2", "U+10CD2", "U+10C92",
      "U+10CD3", "U+10CD3", "U+10C93", "U+10CD4", "U+10CD4", "U+10C94", "U+10CD5", "U+10CD5", "U+10C95", "U+10CD6", "U+10CD6", "U+10C96",
      "U+10CD7", "U+10CD7", "U+10C97", "U+10CD8", "U+10CD8", "U+10C98", "U+10CD9", "U+10CD9", "U+10C99", "U+10CDA", "U+10CDA", "U+10C9A",
      "U+10CDB", "U+10CDB", "U+10C9B", "U+10CDC", "U+10CDC", "U+10C9C", "U+10CDD", "U+10CDD", "U+10C9D", "U+10CDE", "U+10CDE", "U+10C9E",
      "U+10CDF", "U+10CDF", "U+10C9F", "U+10CE0", "U+10CE0", "U+10CA0", "U+10CE1", "U+10CE1", "U+10CA1", "U+10CE2", "U+10CE2", "U+10CA2",
      "U+10CE3", "U+10CE3", "U+10CA3", "U+10CE4", "U+10CE4", "U+10CA4", "U+10CE5", "U+10CE5", "U+10CA5", "U+10CE6", "U+10CE6", "U+10CA6",
      "U+10CE7", "U+10CE7", "U+10CA7", "U+10CE8", "U+10CE8", "U+10CA8", "U+10CE9", "U+10CE9", "U+10CA9", "U+10CEA", "U+10CEA", "U+10CAA",
      "U+10CEB", "U+10CEB", "U+10CAB", "U+10CEC", "U+10CEC", "U+10CAC", "U+10CED", "U+10CED", "U+10CAD", "U+10CEE", "U+10CEE", "U+10CAE",
      "U+10CEF", "U+10CEF", "U+10CAF", "U+10CF0", "U+10CF0", "U+10CB0", "U+10CF1", "U+10CF1", "U+10CB1", "U+10CF2", "U+10CF2", "U+10CB2",
      "U+118A0", "U+118C0", "U+118A0", "U+118A1", "U+118C1", "U+118A1", "U+118A2", "U+118C2", "U+118A2", "U+118A3", "U+118C3", "U+118A3",
      "U+118A4", "U+118C4", "U+118A4", "U+118A5", "U+118C5", "U+118A5", "U+118A6", "U+118C6", "U+118A6", "U+118A7", "U+118C7", "U+118A7",
      "U+118A8", "U+118C8", "U+118A8", "U+118A9", "U+118C9", "U+118A9", "U+118AA", "U+118CA", "U+118AA", "U+118AB", "U+118CB", "U+118AB",
      "U+118AC", "U+118CC", "U+118AC", "U+118AD", "U+118CD", "U+118AD", "U+118AE", "U+118CE", "U+118AE", "U+118AF", "U+118CF", "U+118AF",
      "U+118B0", "U+118D0", "U+118B0", "U+118B1", "U+118D1", "U+118B1", "U+118B2", "U+118D2", "U+118B2", "U+118B3", "U+118D3", "U+118B3",
      "U+118B4", "U+118D4", "U+118B4", "U+118B5", "U+118D5", "U+118B5", "U+118B6", "U+118D6", "U+118B6", "U+118B7", "U+118D7", "U+118B7",
      "U+118B8", "U+118D8", "U+118B8", "U+118B9", "U+118D9", "U+118B9", "U+118BA", "U+118DA", "U+118BA", "U+118BB", "U+118DB", "U+118BB",
      "U+118BC", "U+118DC", "U+118BC", "U+118BD", "U+118DD", "U+118BD", "U+118BE", "U+118DE", "U+118BE", "U+118BF", "U+118DF", "U+118BF",
      "U+118C0", "U+118C0", "U+118A0", "U+118C1", "U+118C1", "U+118A1", "U+118C2", "U+118C2", "U+118A2", "U+118C3", "U+118C3", "U+118A3",
      "U+118C4", "U+118C4", "U+118A4", "U+118C5", "U+118C5", "U+118A5", "U+118C6", "U+118C6", "U+118A6", "U+118C7", "U+118C7", "U+118A7",
      "U+118C8", "U+118C8", "U+118A8", "U+118C9", "U+118C9", "U+118A9", "U+118CA", "U+118CA", "U+118AA", "U+118CB", "U+118CB", "U+118AB",
      "U+118CC", "U+118CC", "U+118AC", "U+118CD", "U+118CD", "U+118AD", "U+118CE", "U+118CE", "U+118AE", "U+118CF", "U+118CF", "U+118AF",
      "U+118D0", "U+118D0", "U+118B0", "U+118D1", "U+118D1", "U+118B1", "U+118D2", "U+118D2", "U+118B2", "U+118D3", "U+118D3", "U+118B3",
      "U+118D4", "U+118D4", "U+118B4", "U+118D5", "U+118D5", "U+118B5", "U+118D6", "U+118D6", "U+118B6", "U+118D7", "U+118D7", "U+118B7",
      "U+118D8", "U+118D8", "U+118B8", "U+118D9", "U+118D9", "U+118B9", "U+118DA", "U+118DA", "U+118BA", "U+118DB", "U+118DB", "U+118BB",
      "U+118DC", "U+118DC", "U+118BC", "U+118DD", "U+118DD", "U+118BD", "U+118DE", "U+118DE", "U+118BE", "U+118DF", "U+118DF", "U+118BF",
      "U+16E40", "U+16E60", "U+16E40", "U+16E41", "U+16E61", "U+16E41", "U+16E42", "U+16E62", "U+16E42", "U+16E43", "U+16E63", "U+16E43",
      "U+16E44", "U+16E64", "U+16E44", "U+16E45", "U+16E65", "U+16E45", "U+16E46", "U+16E66", "U+16E46", "U+16E47", "U+16E67", "U+16E47",
      "U+16E48", "U+16E68", "U+16E48", "U+16E49", "U+16E69", "U+16E49", "U+16E4A", "U+16E6A", "U+16E4A", "U+16E4B", "U+16E6B", "U+16E4B",
      "U+16E4C", "U+16E6C", "U+16E4C", "U+16E4D", "U+16E6D", "U+16E4D", "U+16E4E", "U+16E6E", "U+16E4E", "U+16E4F", "U+16E6F", "U+16E4F",
      "U+16E50", "U+16E70", "U+16E50", "U+16E51", "U+16E71", "U+16E51", "U+16E52", "U+16E72", "U+16E52", "U+16E53", "U+16E73", "U+16E53",
      "U+16E54", "U+16E74", "U+16E54", "U+16E55", "U+16E75", "U+16E55", "U+16E56", "U+16E76", "U+16E56", "U+16E57", "U+16E77", "U+16E57",
      "U+16E58", "U+16E78", "U+16E58", "U+16E59", "U+16E79", "U+16E59", "U+16E5A", "U+16E7A", "U+16E5A", "U+16E5B", "U+16E7B", "U+16E5B",
      "U+16E5C", "U+16E7C", "U+16E5C", "U+16E5D", "U+16E7D", "U+16E5D", "U+16E5E", "U+16E7E", "U+16E5E", "U+16E5F", "U+16E7F", "U+16E5F",
      "U+16E60", "U+16E60", "U+16E40", "U+16E61", "U+16E61", "U+16E41", "U+16E62", "U+16E62", "U+16E42", "U+16E63", "U+16E63", "U+16E43",
      "U+16E64", "U+16E64", "U+16E44", "U+16E65", "U+16E65", "U+16E45", "U+16E66", "U+16E66", "U+16E46", "U+16E67", "U+16E67", "U+16E47",
      "U+16E68", "U+16E68", "U+16E48", "U+16E69", "U+16E69", "U+16E49", "U+16E6A", "U+16E6A", "U+16E4A", "U+16E6B", "U+16E6B", "U+16E4B",
      "U+16E6C", "U+16E6C", "U+16E4C", "U+16E6D", "U+16E6D", "U+16E4D", "U+16E6E", "U+16E6E", "U+16E4E", "U+16E6F", "U+16E6F", "U+16E4F",
      "U+16E70", "U+16E70", "U+16E50", "U+16E71", "U+16E71", "U+16E51", "U+16E72", "U+16E72", "U+16E52", "U+16E73", "U+16E73", "U+16E53",
      "U+16E74", "U+16E74", "U+16E54", "U+16E75", "U+16E75", "U+16E55", "U+16E76", "U+16E76", "U+16E56", "U+16E77", "U+16E77", "U+16E57",
      "U+16E78", "U+16E78", "U+16E58", "U+16E79", "U+16E79", "U+16E59", "U+16E7A", "U+16E7A", "U+16E5A", "U+16E7B", "U+16E7B", "U+16E5B",
      "U+16E7C", "U+16E7C", "U+16E5C", "U+16E7D", "U+16E7D", "U+16E5D", "U+16E7E", "U+16E7E", "U+16E5E", "U+16E7F", "U+16E7F", "U+16E5F",
      "U+1D400", "U+1D400", "U+1D400", "U+1D401", "U+1D401", "U+1D401", "U+1D402", "U+1D402", "U+1D402", "U+1D403", "U+1D403", "U+1D403",
      "U+1D404", "U+1D404", "U+1D404", "U+1D405", "U+1D405", "U+1D405", "U+1D406", "U+1D406", "U+1D406", "U+1D407", "U+1D407", "U+1D407",
      "U+1D408", "U+1D408", "U+1D408", "U+1D409", "U+1D409", "U+1D409", "U+1D40A", "U+1D40A", "U+1D40A", "U+1D40B", "U+1D40B", "U+1D40B",
      "U+1D40C", "U+1D40C", "U+1D40C", "U+1D40D", "U+1D40D", "U+1D40D", "U+1D40E", "U+1D40E", "U+1D40E", "U+1D40F", "U+1D40F", "U+1D40F",
      "U+1D410", "U+1D410", "U+1D410", "U+1D411", "U+1D411", "U+1D411", "U+1D412", "U+1D412", "U+1D412", "U+1D413", "U+1D413", "U+1D413",
      "U+1D414", "U+1D414", "U+1D414", "U+1D415", "U+1D415", "U+1D415", "U+1D416", "U+1D416", "U+1D416", "U+1D417", "U+1D417", "U+1D417",
      "U+1D418", "U+1D418", "U+1D418", "U+1D419", "U+1D419", "U+1D419", "U+1D41A", "U+1D41A", "U+1D41A", "U+1D41B", "U+1D41B", "U+1D41B",
      "U+1D41C", "U+1D41C", "U+1D41C", "U+1D41D", "U+1D41D", "U+1D41D", "U+1D41E", "U+1D41E", "U+1D41E", "U+1D41F", "U+1D41F", "U+1D41F",
      "U+1D420", "U+1D420", "U+1D420", "U+1D421", "U+1D421", "U+1D421", "U+1D422", "U+1D422", "U+1D422", "U+1D423", "U+1D423", "U+1D423",
      "U+1D424", "U+1D424", "U+1D424", "U+1D425", "U+1D425", "U+1D425", "U+1D426", "U+1D426", "U+1D426", "U+1D427", "U+1D427", "U+1D427",
      "U+1D428", "U+1D428", "U+1D428", "U+1D429", "U+1D429", "U+1D429", "U+1D42A", "U+1D42A", "U+1D42A", "U+1D42B", "U+1D42B", "U+1D42B",
      "U+1D42C", "U+1D42C", "U+1D42C", "U+1D42D", "U+1D42D", "U+1D42D", "U+1D42E", "U+1D42E", "U+1D42E", "U+1D42F", "U+1D42F", "U+1D42F",
      "U+1D430", "U+1D430", "U+1D430", "U+1D431", "U+1D431", "U+1D431", "U+1D432", "U+1D432", "U+1D432", "U+1D433", "U+1D433", "U+1D433",
      "U+1D434", "U+1D434", "U+1D434", "U+1D435", "U+1D435", "U+1D435", "U+1D436", "U+1D436", "U+1D436", "U+1D437", "U+1D437", "U+1D437",
      "U+1D438", "U+1D438", "U+1D438", "U+1D439", "U+1D439", "U+1D439", "U+1D43A", "U+1D43A", "U+1D43A", "U+1D43B", "U+1D43B", "U+1D43B",
      "U+1D43C", "U+1D43C", "U+1D43C", "U+1D43D", "U+1D43D", "U+1D43D", "U+1D43E", "U+1D43E", "U+1D43E", "U+1D43F", "U+1D43F", "U+1D43F",
      "U+1D440", "U+1D440", "U+1D440", "U+1D441", "U+1D441", "U+1D441", "U+1D442", "U+1D442", "U+1D442", "U+1D443", "U+1D443", "U+1D443",
      "U+1D444", "U+1D444", "U+1D444", "U+1D445", "U+1D445", "U+1D445", "U+1D446", "U+1D446", "U+1D446", "U+1D447", "U+1D447", "U+1D447",
      "U+1D448", "U+1D448", "U+1D448", "U+1D449", "U+1D449", "U+1D449", "U+1D44A", "U+1D44A", "U+1D44A", "U+1D44B", "U+1D44B", "U+1D44B",
      "U+1D44C", "U+1D44C", "U+1D44C", "U+1D44D", "U+1D44D", "U+1D44D", "U+1D44E", "U+1D44E", "U+1D44E", "U+1D44F", "U+1D44F", "U+1D44F",
      "U+1D450", "U+1D450", "U+1D450", "U+1D451", "U+1D451", "U+1D451", "U+1D452", "U+1D452", "U+1D452", "U+1D453", "U+1D453", "U+1D453",
      "U+1D454", "U+1D454", "U+1D454", "U+1D456", "U+1D456", "U+1D456", "U+1D457", "U+1D457", "U+1D457", "U+1D458", "U+1D458", "U+1D458",
      "U+1D459", "U+1D459", "U+1D459", "U+1D45A", "U+1D45A", "U+1D45A", "U+1D45B", "U+1D45B", "U+1D45B", "U+1D45C", "U+1D45C", "U+1D45C",
      "U+1D45D", "U+1D45D", "U+1D45D", "U+1D45E", "U+1D45E", "U+1D45E", "U+1D45F", "U+1D45F", "U+1D45F", "U+1D460", "U+1D460", "U+1D460",
      "U+1D461", "U+1D461", "U+1D461", "U+1D462", "U+1D462", "U+1D462", "U+1D463", "U+1D463", "U+1D463", "U+1D464", "U+1D464", "U+1D464",
      "U+1D465", "U+1D465", "U+1D465", "U+1D466", "U+1D466", "U+1D466", "U+1D467", "U+1D467", "U+1D467", "U+1D468", "U+1D468", "U+1D468",
      "U+1D469", "U+1D469", "U+1D469", "U+1D46A", "U+1D46A", "U+1D46A", "U+1D46B", "U+1D46B", "U+1D46B", "U+1D46C", "U+1D46C", "U+1D46C",
      "U+1D46D", "U+1D46D", "U+1D46D", "U+1D46E", "U+1D46E", "U+1D46E", "U+1D46F", "U+1D46F", "U+1D46F", "U+1D470", "U+1D470", "U+1D470",
      "U+1D471", "U+1D471", "U+1D471", "U+1D472", "U+1D472", "U+1D472", "U+1D473", "U+1D473", "U+1D473", "U+1D474", "U+1D474", "U+1D474",
      "U+1D475", "U+1D475", "U+1D475", "U+1D476", "U+1D476", "U+1D476", "U+1D477", "U+1D477", "U+1D477", "U+1D478", "U+1D478", "U+1D478",
      "U+1D479", "U+1D479", "U+1D479", "U+1D47A", "U+1D47A", "U+1D47A", "U+1D47B", "U+1D47B", "U+1D47B", "U+1D47C", "U+1D47C", "U+1D47C",
      "U+1D47D", "U+1D47D", "U+1D47D", "U+1D47E", "U+1D47E", "U+1D47E", "U+1D47F", "U+1D47F", "U+1D47F", "U+1D480", "U+1D480", "U+1D480",
      "U+1D481", "U+1D481", "U+1D481", "U+1D482", "U+1D482", "U+1D482", "U+1D483", "U+1D483", "U+1D483", "U+1D484", "U+1D484", "U+1D484",
      "U+1D485", "U+1D485", "U+1D485", "U+1D486", "U+1D486", "U+1D486", "U+1D487", "U+1D487", "U+1D487", "U+1D488", "U+1D488", "U+1D488",
      "U+1D489", "U+1D489", "U+1D489", "U+1D48A", "U+1D48A", "U+1D48A", "U+1D48B", "U+1D48B", "U+1D48B", "U+1D48C", "U+1D48C", "U+1D48C",
      "U+1D48D", "U+1D48D", "U+1D48D", "U+1D48E", "U+1D48E", "U+1D48E", "U+1D48F", "U+1D48F", "U+1D48F", "U+1D490", "U+1D490", "U+1D490",
      "U+1D491", "U+1D491", "U+1D491", "U+1D492", "U+1D492", "U+1D492", "U+1D493", "U+1D493", "U+1D493", "U+1D494", "U+1D494", "U+1D494",
      "U+1D495", "U+1D495", "U+1D495", "U+1D496", "U+1D496", "U+1D496", "U+1D497", "U+1D497", "U+1D497", "U+1D498", "U+1D498", "U+1D498",
      "U+1D499", "U+1D499", "U+1D499", "U+1D49A", "U+1D49A", "U+1D49A", "U+1D49B", "U+1D49B", "U+1D49B", "U+1D49C", "U+1D49C", "U+1D49C",
      "U+1D49E", "U+1D49E", "U+1D49E", "U+1D49F", "U+1D49F", "U+1D49F", "U+1D4A2", "U+1D4A2", "U+1D4A2", "U+1D4A5", "U+1D4A5", "U+1D4A5",
      "U+1D4A6", "U+1D4A6", "U+1D4A6", "U+1D4A9", "U+1D4A9", "U+1D4A9", "U+1D4AA", "U+1D4AA", "U+1D4AA", "U+1D4AB", "U+1D4AB", "U+1D4AB",
      "U+1D4AC", "U+1D4AC", "U+1D4AC", "U+1D4AE", "U+1D4AE", "U+1D4AE", "U+1D4AF", "U+1D4AF", "U+1D4AF", "U+1D4B0", "U+1D4B0", "U+1D4B0",
      "U+1D4B1", "U+1D4B1", "U+1D4B1", "U+1D4B2", "U+1D4B2", "U+1D4B2", "U+1D4B3", "U+1D4B3", "U+1D4B3", "U+1D4B4", "U+1D4B4", "U+1D4B4",
      "U+1D4B5", "U+1D4B5", "U+1D4B5", "U+1D4B6", "U+1D4B6", "U+1D4B6", "U+1D4B7", "U+1D4B7", "U+1D4B7", "U+1D4B8", "U+1D4B8", "U+1D4B8",
      "U+1D4B9", "U+1D4B9", "U+1D4B9", "U+1D4BB", "U+1D4BB", "U+1D4BB", "U+1D4BD", "U+1D4BD", "U+1D4BD", "U+1D4BE", "U+1D4BE", "U+1D4BE",
      "U+1D4BF", "U+1D4BF", "U+1D4BF", "U+1D4C0", "U+1D4C0", "U+1D4C0", "U+1D4C1", "U+1D4C1", "U+1D4C1", "U+1D4C2", "U+1D4C2", "U+1D4C2",
      "U+1D4C3", "U+1D4C3", "U+1D4C3", "U+1D4C5", "U+1D4C5", "U+1D4C5", "U+1D4C6", "U+1D4C6", "U+1D4C6", "U+1D4C7", "U+1D4C7", "U+1D4C7",
      "U+1D4C8", "U+1D4C8", "U+1D4C8", "U+1D4C9", "U+1D4C9", "U+1D4C9", "U+1D4CA", "U+1D4CA", "U+1D4CA", "U+1D4CB", "U+1D4CB", "U+1D4CB",
      "U+1D4CC", "U+1D4CC", "U+1D4CC", "U+1D4CD", "U+1D4CD", "U+1D4CD", "U+1D4CE", "U+1D4CE", "U+1D4CE", "U+1D4CF", "U+1D4CF", "U+1D4CF",
      "U+1D4D0", "U+1D4D0", "U+1D4D0", "U+1D4D1", "U+1D4D1", "U+1D4D1", "U+1D4D2", "U+1D4D2", "U+1D4D2", "U+1D4D3", "U+1D4D3", "U+1D4D3",
      "U+1D4D4", "U+1D4D4", "U+1D4D4", "U+1D4D5", "U+1D4D5", "U+1D4D5", "U+1D4D6", "U+1D4D6", "U+1D4D6", "U+1D4D7", "U+1D4D7", "U+1D4D7",
      "U+1D4D8", "U+1D4D8", "U+1D4D8", "U+1D4D9", "U+1D4D9", "U+1D4D9", "U+1D4DA", "U+1D4DA", "U+1D4DA", "U+1D4DB", "U+1D4DB", "U+1D4DB",
      "U+1D4DC", "U+1D4DC", "U+1D4DC", "U+1D4DD", "U+1D4DD", "U+1D4DD", "U+1D4DE", "U+1D4DE", "U+1D4DE", "U+1D4DF", "U+1D4DF", "U+1D4DF",
      "U+1D4E0", "U+1D4E0", "U+1D4E0", "U+1D4E1", "U+1D4E1", "U+1D4E1", "U+1D4E2", "U+1D4E2", "U+1D4E2", "U+1D4E3", "U+1D4E3", "U+1D4E3",
      "U+1D4E4", "U+1D4E4", "U+1D4E4", "U+1D4E5", "U+1D4E5", "U+1D4E5", "U+1D4E6", "U+1D4E6", "U+1D4E6", "U+1D4E7", "U+1D4E7", "U+1D4E7",
      "U+1D4E8", "U+1D4E8", "U+1D4E8", "U+1D4E9", "U+1D4E9", "U+1D4E9", "U+1D4EA", "U+1D4EA", "U+1D4EA", "U+1D4EB", "U+1D4EB", "U+1D4EB",
      "U+1D4EC", "U+1D4EC", "U+1D4EC", "U+1D4ED", "U+1D4ED", "U+1D4ED", "U+1D4EE", "U+1D4EE", "U+1D4EE", "U+1D4EF", "U+1D4EF", "U+1D4EF",
      "U+1D4F0", "U+1D4F0", "U+1D4F0", "U+1D4F1", "U+1D4F1", "U+1D4F1", "U+1D4F2", "U+1D4F2", "U+1D4F2", "U+1D4F3", "U+1D4F3", "U+1D4F3",
      "U+1D4F4", "U+1D4F4", "U+1D4F4", "U+1D4F5", "U+1D4F5", "U+1D4F5", "U+1D4F6", "U+1D4F6", "U+1D4F6", "U+1D4F7", "U+1D4F7", "U+1D4F7",
      "U+1D4F8", "U+1D4F8", "U+1D4F8", "U+1D4F9", "U+1D4F9", "U+1D4F9", "U+1D4FA", "U+1D4FA", "U+1D4FA", "U+1D4FB", "U+1D4FB", "U+1D4FB",
      "U+1D4FC", "U+1D4FC", "U+1D4FC", "U+1D4FD", "U+1D4FD", "U+1D4FD", "U+1D4FE", "U+1D4FE", "U+1D4FE", "U+1D4FF", "U+1D4FF", "U+1D4FF",
      "U+1D500", "U+1D500", "U+1D500", "U+1D501", "U+1D501", "U+1D501", "U+1D502", "U+1D502", "U+1D502", "U+1D503", "U+1D503", "U+1D503",
      "U+1D504", "U+1D504", "U+1D504", "U+1D505", "U+1D505", "U+1D505", "U+1D507", "U+1D507", "U+1D507", "U+1D508", "U+1D508", "U+1D508",
      "U+1D509", "U+1D509", "U+1D509", "U+1D50A", "U+1D50A", "U+1D50A", "U+1D50D", "U+1D50D", "U+1D50D", "U+1D50E", "U+1D50E", "U+1D50E",
      "U+1D50F", "U+1D50F", "U+1D50F", "U+1D510", "U+1D510", "U+1D510", "U+1D511", "U+1D511", "U+1D511", "U+1D512", "U+1D512", "U+1D512",
      "U+1D513", "U+1D513", "U+1D513", "U+1D514", "U+1D514", "U+1D514", "U+1D516", "U+1D516", "U+1D516", "U+1D517", "U+1D517", "U+1D517",
      "U+1D518", "U+1D518", "U+1D518", "U+1D519", "U+1D519", "U+1D519", "U+1D51A", "U+1D51A", "U+1D51A", "U+1D51B", "U+1D51B", "U+1D51B",
      "U+1D51C", "U+1D51C", "U+1D51C", "U+1D51E", "U+1D51E", "U+1D51E", "U+1D51F", "U+1D51F", "U+1D51F", "U+1D520", "U+1D520", "U+1D520",
      "U+1D521", "U+1D521", "U+1D521", "U+1D522", "U+1D522", "U+1D522", "U+1D523", "U+1D523", "U+1D523", "U+1D524", "U+1D524", "U+1D524",
      "U+1D525", "U+1D525", "U+1D525", "U+1D526", "U+1D526", "U+1D526", "U+1D527", "U+1D527", "U+1D527", "U+1D528", "U+1D528", "U+1D528",
      "U+1D529", "U+1D529", "U+1D529", "U+1D52A", "U+1D52A", "U+1D52A", "U+1D52B", "U+1D52B", "U+1D52B", "U+1D52C", "U+1D52C", "U+1D52C",
      "U+1D52D", "U+1D52D", "U+1D52D", "U+1D52E", "U+1D52E", "U+1D52E", "U+1D52F", "U+1D52F", "U+1D52F", "U+1D530", "U+1D530", "U+1D530",
      "U+1D531", "U+1D531", "U+1D531", "U+1D532", "U+1D532", "U+1D532", "U+1D533", "U+1D533", "U+1D533", "U+1D534", "U+1D534", "U+1D534",
      "U+1D535", "U+1D535", "U+1D535", "U+1D536", "U+1D536", "U+1D536", "U+1D537", "U+1D537", "U+1D537", "U+1D538", "U+1D538", "U+1D538",
      "U+1D539", "U+1D539", "U+1D539", "U+1D53B", "U+1D53B", "U+1D53B", "U+1D53C", "U+1D53C", "U+1D53C", "U+1D53D", "U+1D53D", "U+1D53D",
      "U+1D53E", "U+1D53E", "U+1D53E", "U+1D540", "U+1D540", "U+1D540", "U+1D541", "U+1D541", "U+1D541", "U+1D542", "U+1D542", "U+1D542",
      "U+1D543", "U+1D543", "U+1D543", "U+1D544", "U+1D544", "U+1D544", "U+1D546", "U+1D546", "U+1D546", "U+1D54A", "U+1D54A", "U+1D54A",
      "U+1D54B", "U+1D54B", "U+1D54B", "U+1D54C", "U+1D54C", "U+1D54C", "U+1D54D", "U+1D54D", "U+1D54D", "U+1D54E", "U+1D54E", "U+1D54E",
      "U+1D54F", "U+1D54F", "U+1D54F", "U+1D550", "U+1D550", "U+1D550", "U+1D552", "U+1D552", "U+1D552", "U+1D553", "U+1D553", "U+1D553",
      "U+1D554", "U+1D554", "U+1D554", "U+1D555", "U+1D555", "U+1D555", "U+1D556", "U+1D556", "U+1D556", "U+1D557", "U+1D557", "U+1D557",
      "U+1D558", "U+1D558", "U+1D558", "U+1D559", "U+1D559", "U+1D559", "U+1D55A", "U+1D55A", "U+1D55A", "U+1D55B", "U+1D55B", "U+1D55B",
      "U+1D55C", "U+1D55C", "U+1D55C", "U+1D55D", "U+1D55D", "U+1D55D", "U+1D55E", "U+1D55E", "U+1D55E", "U+1D55F", "U+1D55F", "U+1D55F",
      "U+1D560", "U+1D560", "U+1D560", "U+1D561", "U+1D561", "U+1D561", "U+1D562", "U+1D562", "U+1D562", "U+1D563", "U+1D563", "U+1D563",
      "U+1D564", "U+1D564", "U+1D564", "U+1D565", "U+1D565", "U+1D565", "U+1D566", "U+1D566", "U+1D566", "U+1D567", "U+1D567", "U+1D567",
      "U+1D568", "U+1D568", "U+1D568", "U+1D569", "U+1D569", "U+1D569", "U+1D56A", "U+1D56A", "U+1D56A", "U+1D56B", "U+1D56B", "U+1D56B",
      "U+1D56C", "U+1D56C", "U+1D56C", "U+1D56D", "U+1D56D", "U+1D56D", "U+1D56E", "U+1D56E", "U+1D56E", "U+1D56F", "U+1D56F", "U+1D56F",
      "U+1D570", "U+1D570", "U+1D570", "U+1D571", "U+1D571", "U+1D571", "U+1D572", "U+1D572", "U+1D572", "U+1D573", "U+1D573", "U+1D573",
      "U+1D574", "U+1D574", "U+1D574", "U+1D575", "U+1D575", "U+1D575", "U+1D576", "U+1D576", "U+1D576", "U+1D577", "U+1D577", "U+1D577",
      "U+1D578", "U+1D578", "U+1D578", "U+1D579", "U+1D579", "U+1D579", "U+1D57A", "U+1D57A", "U+1D57A", "U+1D57B", "U+1D57B", "U+1D57B",
      "U+1D57C", "U+1D57C", "U+1D57C", "U+1D57D", "U+1D57D", "U+1D57D", "U+1D57E", "U+1D57E", "U+1D57E", "U+1D57F", "U+1D57F", "U+1D57F",
      "U+1D580", "U+1D580", "U+1D580", "U+1D581", "U+1D581", "U+1D581", "U+1D582", "U+1D582", "U+1D582", "U+1D583", "U+1D583", "U+1D583",
      "U+1D584", "U+1D584", "U+1D584", "U+1D585", "U+1D585", "U+1D585", "U+1D586", "U+1D586", "U+1D586", "U+1D587", "U+1D587", "U+1D587",
      "U+1D588", "U+1D588", "U+1D588", "U+1D589", "U+1D589", "U+1D589", "U+1D58A", "U+1D58A", "U+1D58A", "U+1D58B", "U+1D58B", "U+1D58B",
      "U+1D58C", "U+1D58C", "U+1D58C", "U+1D58D", "U+1D58D", "U+1D58D", "U+1D58E", "U+1D58E", "U+1D58E", "U+1D58F", "U+1D58F", "U+1D58F",
      "U+1D590", "U+1D590", "U+1D590", "U+1D591", "U+1D591", "U+1D591", "U+1D592", "U+1D592", "U+1D592", "U+1D593", "U+1D593", "U+1D593",
      "U+1D594", "U+1D594", "U+1D594", "U+1D595", "U+1D595", "U+1D595", "U+1D596", "U+1D596", "U+1D596", "U+1D597", "U+1D597", "U+1D597",
      "U+1D598", "U+1D598", "U+1D598", "U+1D599", "U+1D599", "U+1D599", "U+1D59A", "U+1D59A", "U+1D59A", "U+1D59B", "U+1D59B", "U+1D59B",
      "U+1D59C", "U+1D59C", "U+1D59C", "U+1D59D", "U+1D59D", "U+1D59D", "U+1D59E", "U+1D59E", "U+1D59E", "U+1D59F", "U+1D59F", "U+1D59F",
      "U+1D5A0", "U+1D5A0", "U+1D5A0", "U+1D5A1", "U+1D5A1", "U+1D5A1", "U+1D5A2", "U+1D5A2", "U+1D5A2", "U+1D5A3", "U+1D5A3", "U+1D5A3",
      "U+1D5A4", "U+1D5A4", "U+1D5A4", "U+1D5A5", "U+1D5A5", "U+1D5A5", "U+1D5A6", "U+1D5A6", "U+1D5A6", "U+1D5A7", "U+1D5A7", "U+1D5A7",
      "U+1D5A8", "U+1D5A8", "U+1D5A8", "U+1D5A9", "U+1D5A9", "U+1D5A9", "U+1D5AA", "U+1D5AA", "U+1D5AA", "U+1D5AB", "U+1D5AB", "U+1D5AB",
      "U+1D5AC", "U+1D5AC", "U+1D5AC", "U+1D5AD", "U+1D5AD", "U+1D5AD", "U+1D5AE", "U+1D5AE", "U+1D5AE", "U+1D5AF", "U+1D5AF", "U+1D5AF",
      "U+1D5B0", "U+1D5B0", "U+1D5B0", "U+1D5B1", "U+1D5B1", "U+1D5B1", "U+1D5B2", "U+1D5B2", "U+1D5B2", "U+1D5B3", "U+1D5B3", "U+1D5B3",
      "U+1D5B4", "U+1D5B4", "U+1D5B4", "U+1D5B5", "U+1D5B5", "U+1D5B5", "U+1D5B6", "U+1D5B6", "U+1D5B6", "U+1D5B7", "U+1D5B7", "U+1D5B7",
      "U+1D5B8", "U+1D5B8", "U+1D5B8", "U+1D5B9", "U+1D5B9", "U+1D5B9", "U+1D5BA", "U+1D5BA", "U+1D5BA", "U+1D5BB", "U+1D5BB", "U+1D5BB",
      "U+1D5BC", "U+1D5BC", "U+1D5BC", "U+1D5BD", "U+1D5BD", "U+1D5BD", "U+1D5BE", "U+1D5BE", "U+1D5BE", "U+1D5BF", "U+1D5BF", "U+1D5BF",
      "U+1D5C0", "U+1D5C0", "U+1D5C0", "U+1D5C1", "U+1D5C1", "U+1D5C1", "U+1D5C2", "U+1D5C2", "U+1D5C2", "U+1D5C3", "U+1D5C3", "U+1D5C3",
      "U+1D5C4", "U+1D5C4", "U+1D5C4", "U+1D5C5", "U+1D5C5", "U+1D5C5", "U+1D5C6", "U+1D5C6", "U+1D5C6", "U+1D5C7", "U+1D5C7", "U+1D5C7",
      "U+1D5C8", "U+1D5C8", "U+1D5C8", "U+1D5C9", "U+1D5C9", "U+1D5C9", "U+1D5CA", "U+1D5CA", "U+1D5CA", "U+1D5CB", "U+1D5CB", "U+1D5CB",
      "U+1D5CC", "U+1D5CC", "U+1D5CC", "U+1D5CD", "U+1D5CD", "U+1D5CD", "U+1D5CE", "U+1D5CE", "U+1D5CE", "U+1D5CF", "U+1D5CF", "U+1D5CF",
      "U+1D5D0", "U+1D5D0", "U+1D5D0", "U+1D5D1", "U+1D5D1", "U+1D5D1", "U+1D5D2", "U+1D5D2", "U+1D5D2", "U+1D5D3", "U+1D5D3", "U+1D5D3",
      "U+1D5D4", "U+1D5D4", "U+1D5D4", "U+1D5D5", "U+1D5D5", "U+1D5D5", "U+1D5D6", "U+1D5D6", "U+1D5D6", "U+1D5D7", "U+1D5D7", "U+1D5D7",
      "U+1D5D8", "U+1D5D8", "U+1D5D8", "U+1D5D9", "U+1D5D9", "U+1D5D9", "U+1D5DA", "U+1D5DA", "U+1D5DA", "U+1D5DB", "U+1D5DB", "U+1D5DB",
      "U+1D5DC", "U+1D5DC", "U+1D5DC", "U+1D5DD", "U+1D5DD", "U+1D5DD", "U+1D5DE", "U+1D5DE", "U+1D5DE", "U+1D5DF", "U+1D5DF", "U+1D5DF",
      "U+1D5E0", "U+1D5E0", "U+1D5E0", "U+1D5E1", "U+1D5E1", "U+1D5E1", "U+1D5E2", "U+1D5E2", "U+1D5E2", "U+1D5E3", "U+1D5E3", "U+1D5E3",
      "U+1D5E4", "U+1D5E4", "U+1D5E4", "U+1D5E5", "U+1D5E5", "U+1D5E5", "U+1D5E6", "U+1D5E6", "U+1D5E6", "U+1D5E7", "U+1D5E7", "U+1D5E7",
      "U+1D5E8", "U+1D5E8", "U+1D5E8", "U+1D5E9", "U+1D5E9", "U+1D5E9", "U+1D5EA", "U+1D5EA", "U+1D5EA", "U+1D5EB", "U+1D5EB", "U+1D5EB",
      "U+1D5EC", "U+1D5EC", "U+1D5EC", "U+1D5ED", "U+1D5ED", "U+1D5ED", "U+1D5EE", "U+1D5EE", "U+1D5EE", "U+1D5EF", "U+1D5EF", "U+1D5EF",
      "U+1D5F0", "U+1D5F0", "U+1D5F0", "U+1D5F1", "U+1D5F1", "U+1D5F1", "U+1D5F2", "U+1D5F2", "U+1D5F2", "U+1D5F3", "U+1D5F3", "U+1D5F3",
      "U+1D5F4", "U+1D5F4", "U+1D5F4", "U+1D5F5", "U+1D5F5", "U+1D5F5", "U+1D5F6", "U+1D5F6", "U+1D5F6", "U+1D5F7", "U+1D5F7", "U+1D5F7",
      "U+1D5F8", "U+1D5F8", "U+1D5F8", "U+1D5F9", "U+1D5F9", "U+1D5F9", "U+1D5FA", "U+1D5FA", "U+1D5FA", "U+1D5FB", "U+1D5FB", "U+1D5FB",
      "U+1D5FC", "U+1D5FC", "U+1D5FC", "U+1D5FD", "U+1D5FD", "U+1D5FD", "U+1D5FE", "U+1D5FE", "U+1D5FE", "U+1D5FF", "U+1D5FF", "U+1D5FF",
      "U+1D600", "U+1D600", "U+1D600", "U+1D601", "U+1D601", "U+1D601", "U+1D602", "U+1D602", "U+1D602", "U+1D603", "U+1D603", "U+1D603",
      "U+1D604", "U+1D604", "U+1D604", "U+1D605", "U+1D605", "U+1D605", "U+1D606", "U+1D606", "U+1D606", "U+1D607", "U+1D607", "U+1D607",
      "U+1D608", "U+1D608", "U+1D608", "U+1D609", "U+1D609", "U+1D609", "U+1D60A", "U+1D60A", "U+1D60A", "U+1D60B", "U+1D60B", "U+1D60B",
      "U+1D60C", "U+1D60C", "U+1D60C", "U+1D60D", "U+1D60D", "U+1D60D", "U+1D60E", "U+1D60E", "U+1D60E", "U+1D60F", "U+1D60F", "U+1D60F",
      "U+1D610", "U+1D610", "U+1D610", "U+1D611", "U+1D611", "U+1D611", "U+1D612", "U+1D612", "U+1D612", "U+1D613", "U+1D613", "U+1D613",
      "U+1D614", "U+1D614", "U+1D614", "U+1D615", "U+1D615", "U+1D615", "U+1D616", "U+1D616", "U+1D616", "U+1D617", "U+1D617", "U+1D617",
      "U+1D618", "U+1D618", "U+1D618", "U+1D619", "U+1D619", "U+1D619", "U+1D61A", "U+1D61A", "U+1D61A", "U+1D61B", "U+1D61B", "U+1D61B",
      "U+1D61C", "U+1D61C", "U+1D61C", "U+1D61D", "U+1D61D", "U+1D61D", "U+1D61E", "U+1D61E", "U+1D61E", "U+1D61F", "U+1D61F", "U+1D61F",
      "U+1D620", "U+1D620", "U+1D620", "U+1D621", "U+1D621", "U+1D621", "U+1D622", "U+1D622", "U+1D622", "U+1D623", "U+1D623", "U+1D623",
      "U+1D624", "U+1D624", "U+1D624", "U+1D625", "U+1D625", "U+1D625", "U+1D626", "U+1D626", "U+1D626", "U+1D627", "U+1D627", "U+1D627",
      "U+1D628", "U+1D628", "U+1D628", "U+1D629", "U+1D629", "U+1D629", "U+1D62A", "U+1D62A", "U+1D62A", "U+1D62B", "U+1D62B", "U+1D62B",
      "U+1D62C", "U+1D62C", "U+1D62C", "U+1D62D", "U+1D62D", "U+1D62D", "U+1D62E", "U+1D62E", "U+1D62E", "U+1D62F", "U+1D62F", "U+1D62F",
      "U+1D630", "U+1D630", "U+1D630", "U+1D631", "U+1D631", "U+1D631", "U+1D632", "U+1D632", "U+1D632", "U+1D633", "U+1D633", "U+1D633",
      "U+1D634", "U+1D634", "U+1D634", "U+1D635", "U+1D635", "U+1D635", "U+1D636", "U+1D636", "U+1D636", "U+1D637", "U+1D637", "U+1D637",
      "U+1D638", "U+1D638", "U+1D638", "U+1D639", "U+1D639", "U+1D639", "U+1D63A", "U+1D63A", "U+1D63A", "U+1D63B", "U+1D63B", "U+1D63B",
      "U+1D63C", "U+1D63C", "U+1D63C", "U+1D63D", "U+1D63D", "U+1D63D", "U+1D63E", "U+1D63E", "U+1D63E", "U+1D63F", "U+1D63F", "U+1D63F",
      "U+1D640", "U+1D640", "U+1D640", "U+1D641", "U+1D641", "U+1D641", "U+1D642", "U+1D642", "U+1D642", "U+1D643", "U+1D643", "U+1D643",
      "U+1D644", "U+1D644", "U+1D644", "U+1D645", "U+1D645", "U+1D645", "U+1D646", "U+1D646", "U+1D646", "U+1D647", "U+1D647", "U+1D647",
      "U+1D648", "U+1D648", "U+1D648", "U+1D649", "U+1D649", "U+1D649", "U+1D64A", "U+1D64A", "U+1D64A", "U+1D64B", "U+1D64B", "U+1D64B",
      "U+1D64C", "U+1D64C", "U+1D64C", "U+1D64D", "U+1D64D", "U+1D64D", "U+1D64E", "U+1D64E", "U+1D64E", "U+1D64F", "U+1D64F", "U+1D64F",
      "U+1D650", "U+1D650", "U+1D650", "U+1D651", "U+1D651", "U+1D651", "U+1D652", "U+1D652", "U+1D652", "U+1D653", "U+1D653", "U+1D653",
      "U+1D654", "U+1D654", "U+1D654", "U+1D655", "U+1D655", "U+1D655", "U+1D656", "U+1D656", "U+1D656", "U+1D657", "U+1D657", "U+1D657",
      "U+1D658", "U+1D658", "U+1D658", "U+1D659", "U+1D659", "U+1D659", "U+1D65A", "U+1D65A", "U+1D65A", "U+1D65B", "U+1D65B", "U+1D65B",
      "U+1D65C", "U+1D65C", "U+1D65C", "U+1D65D", "U+1D65D", "U+1D65D", "U+1D65E", "U+1D65E", "U+1D65E", "U+1D65F", "U+1D65F", "U+1D65F",
      "U+1D660", "U+1D660", "U+1D660", "U+1D661", "U+1D661", "U+1D661", "U+1D662", "U+1D662", "U+1D662", "U+1D663", "U+1D663", "U+1D663",
      "U+1D664", "U+1D664", "U+1D664", "U+1D665", "U+1D665", "U+1D665", "U+1D666", "U+1D666", "U+1D666", "U+1D667", "U+1D667", "U+1D667",
      "U+1D668", "U+1D668", "U+1D668", "U+1D669", "U+1D669", "U+1D669", "U+1D66A", "U+1D66A", "U+1D66A", "U+1D66B", "U+1D66B", "U+1D66B",
      "U+1D66C", "U+1D66C", "U+1D66C", "U+1D66D", "U+1D66D", "U+1D66D", "U+1D66E", "U+1D66E", "U+1D66E", "U+1D66F", "U+1D66F", "U+1D66F",
      "U+1D670", "U+1D670", "U+1D670", "U+1D671", "U+1D671", "U+1D671", "U+1D672", "U+1D672", "U+1D672", "U+1D673", "U+1D673", "U+1D673",
      "U+1D674", "U+1D674", "U+1D674", "U+1D675", "U+1D675", "U+1D675", "U+1D676", "U+1D676", "U+1D676", "U+1D677", "U+1D677", "U+1D677",
      "U+1D678", "U+1D678", "U+1D678", "U+1D679", "U+1D679", "U+1D679", "U+1D67A", "U+1D67A", "U+1D67A", "U+1D67B", "U+1D67B", "U+1D67B",
      "U+1D67C", "U+1D67C", "U+1D67C", "U+1D67D", "U+1D67D", "U+1D67D", "U+1D67E", "U+1D67E", "U+1D67E", "U+1D67F", "U+1D67F", "U+1D67F",
      "U+1D680", "U+1D680", "U+1D680", "U+1D681", "U+1D681", "U+1D681", "U+1D682", "U+1D682", "U+1D682", "U+1D683", "U+1D683", "U+1D683",
      "U+1D684", "U+1D684", "U+1D684", "U+1D685", "U+1D685", "U+1D685", "U+1D686", "U+1D686", "U+1D686", "U+1D687", "U+1D687", "U+1D687",
      "U+1D688", "U+1D688", "U+1D688", "U+1D689", "U+1D689", "U+1D689", "U+1D68A", "U+1D68A", "U+1D68A", "U+1D68B", "U+1D68B", "U+1D68B",
      "U+1D68C", "U+1D68C", "U+1D68C", "U+1D68D", "U+1D68D", "U+1D68D", "U+1D68E", "U+1D68E", "U+1D68E", "U+1D68F", "U+1D68F", "U+1D68F",
      "U+1D690", "U+1D690", "U+1D690", "U+1D691", "U+1D691", "U+1D691", "U+1D692", "U+1D692", "U+1D692", "U+1D693", "U+1D693", "U+1D693",
      "U+1D694", "U+1D694", "U+1D694", "U+1D695", "U+1D695", "U+1D695", "U+1D696", "U+1D696", "U+1D696", "U+1D697", "U+1D697", "U+1D697",
      "U+1D698", "U+1D698", "U+1D698", "U+1D699", "U+1D699", "U+1D699", "U+1D69A", "U+1D69A", "U+1D69A", "U+1D69B", "U+1D69B", "U+1D69B",
      "U+1D69C", "U+1D69C", "U+1D69C", "U+1D69D", "U+1D69D", "U+1D69D", "U+1D69E", "U+1D69E", "U+1D69E", "U+1D69F", "U+1D69F", "U+1D69F",
      "U+1D6A0", "U+1D6A0", "U+1D6A0", "U+1D6A1", "U+1D6A1", "U+1D6A1", "U+1D6A2", "U+1D6A2", "U+1D6A2", "U+1D6A3", "U+1D6A3", "U+1D6A3",
      "U+1D6A4", "U+1D6A4", "U+1D6A4", "U+1D6A5", "U+1D6A5", "U+1D6A5", "U+1D6A8", "U+1D6A8", "U+1D6A8", "U+1D6A9", "U+1D6A9", "U+1D6A9",
      "U+1D6AA", "U+1D6AA", "U+1D6AA", "U+1D6AB", "U+1D6AB", "U+1D6AB", "U+1D6AC", "U+1D6AC", "U+1D6AC", "U+1D6AD", "U+1D6AD", "U+1D6AD",
      "U+1D6AE", "U+1D6AE", "U+1D6AE", "U+1D6AF", "U+1D6AF", "U+1D6AF", "U+1D6B0", "U+1D6B0", "U+1D6B0", "U+1D6B1", "U+1D6B1", "U+1D6B1",
      "U+1D6B2", "U+1D6B2", "U+1D6B2", "U+1D6B3", "U+1D6B3", "U+1D6B3", "U+1D6B4", "U+1D6B4", "U+1D6B4", "U+1D6B5", "U+1D6B5", "U+1D6B5",
      "U+1D6B6", "U+1D6B6", "U+1D6B6", "U+1D6B7", "U+1D6B7", "U+1D6B7", "U+1D6B8", "U+1D6B8", "U+1D6B8", "U+1D6B9", "U+1D6B9", "U+1D6B9",
      "U+1D6BA", "U+1D6BA", "U+1D6BA", "U+1D6BB", "U+1D6BB", "U+1D6BB", "U+1D6BC", "U+1D6BC", "U+1D6BC", "U+1D6BD", "U+1D6BD", "U+1D6BD",
      "U+1D6BE", "U+1D6BE", "U+1D6BE", "U+1D6BF", "U+1D6BF", "U+1D6BF", "U+1D6C0", "U+1D6C0", "U+1D6C0", "U+1D6C2", "U+1D6C2", "U+1D6C2",
      "U+1D6C3", "U+1D6C3", "U+1D6C3", "U+1D6C4", "U+1D6C4", "U+1D6C4", "U+1D6C5", "U+1D6C5", "U+1D6C5", "U+1D6C6", "U+1D6C6", "U+1D6C6",
      "U+1D6C7", "U+1D6C7", "U+1D6C7", "U+1D6C8", "U+1D6C8", "U+1D6C8", "U+1D6C9", "U+1D6C9", "U+1D6C9", "U+1D6CA", "U+1D6CA", "U+1D6CA",
      "U+1D6CB", "U+1D6CB", "U+1D6CB", "U+1D6CC", "U+1D6CC", "U+1D6CC", "U+1D6CD", "U+1D6CD", "U+1D6CD", "U+1D6CE", "U+1D6CE", "U+1D6CE",
      "U+1D6CF", "U+1D6CF", "U+1D6CF", "U+1D6D0", "U+1D6D0", "U+1D6D0", "U+1D6D1", "U+1D6D1", "U+1D6D1", "U+1D6D2", "U+1D6D2", "U+1D6D2",
      "U+1D6D3", "U+1D6D3", "U+1D6D3", "U+1D6D4", "U+1D6D4", "U+1D6D4", "U+1D6D5", "U+1D6D5", "U+1D6D5", "U+1D6D6", "U+1D6D6", "U+1D6D6",
      "U+1D6D7", "U+1D6D7", "U+1D6D7", "U+1D6D8", "U+1D6D8", "U+1D6D8", "U+1D6D9", "U+1D6D9", "U+1D6D9", "U+1D6DA", "U+1D6DA", "U+1D6DA",
      "U+1D6DC", "U+1D6DC", "U+1D6DC", "U+1D6DD", "U+1D6DD", "U+1D6DD", "U+1D6DE", "U+1D6DE", "U+1D6DE", "U+1D6DF", "U+1D6DF", "U+1D6DF",
      "U+1D6E0", "U+1D6E0", "U+1D6E0", "U+1D6E1", "U+1D6E1", "U+1D6E1", "U+1D6E2", "U+1D6E2", "U+1D6E2", "U+1D6E3", "U+1D6E3", "U+1D6E3",
      "U+1D6E4", "U+1D6E4", "U+1D6E4", "U+1D6E5", "U+1D6E5", "U+1D6E5", "U+1D6E6", "U+1D6E6", "U+1D6E6", "U+1D6E7", "U+1D6E7", "U+1D6E7",
      "U+1D6E8", "U+1D6E8", "U+1D6E8", "U+1D6E9", "U+1D6E9", "U+1D6E9", "U+1D6EA", "U+1D6EA", "U+1D6EA", "U+1D6EB", "U+1D6EB", "U+1D6EB",
      "U+1D6EC", "U+1D6EC", "U+1D6EC", "U+1D6ED", "U+1D6ED", "U+1D6ED", "U+1D6EE", "U+1D6EE", "U+1D6EE", "U+1D6EF", "U+1D6EF", "U+1D6EF",
      "U+1D6F0", "U+1D6F0", "U+1D6F0", "U+1D6F1", "U+1D6F1", "U+1D6F1", "U+1D6F2", "U+1D6F2", "U+1D6F2", "U+1D6F3", "U+1D6F3", "U+1D6F3",
      "U+1D6F4", "U+1D6F4", "U+1D6F4", "U+1D6F5", "U+1D6F5", "U+1D6F5", "U+1D6F6", "U+1D6F6", "U+1D6F6", "U+1D6F7", "U+1D6F7", "U+1D6F7",
      "U+1D6F8", "U+1D6F8", "U+1D6F8", "U+1D6F9", "U+1D6F9", "U+1D6F9", "U+1D6FA", "U+1D6FA", "U+1D6FA", "U+1D6FC", "U+1D6FC", "U+1D6FC",
      "U+1D6FD", "U+1D6FD", "U+1D6FD", "U+1D6FE", "U+1D6FE", "U+1D6FE", "U+1D6FF", "U+1D6FF", "U+1D6FF", "U+1D700", "U+1D700", "U+1D700",
      "U+1D701", "U+1D701", "U+1D701", "U+1D702", "U+1D702", "U+1D702", "U+1D703", "U+1D703", "U+1D703", "U+1D704", "U+1D704", "U+1D704",
      "U+1D705", "U+1D705", "U+1D705", "U+1D706", "U+1D706", "U+1D706", "U+1D707", "U+1D707", "U+1D707", "U+1D708", "U+1D708", "U+1D708",
      "U+1D709", "U+1D709", "U+1D709", "U+1D70A", "U+1D70A", "U+1D70A", "U+1D70B", "U+1D70B", "U+1D70B", "U+1D70C", "U+1D70C", "U+1D70C",
      "U+1D70D", "U+1D70D", "U+1D70D", "U+1D70E", "U+1D70E", "U+1D70E", "U+1D70F", "U+1D70F", "U+1D70F", "U+1D710", "U+1D710", "U+1D710",
      "U+1D711", "U+1D711", "U+1D711", "U+1D712", "U+1D712", "U+1D712", "U+1D713", "U+1D713", "U+1D713", "U+1D714", "U+1D714", "U+1D714",
      "U+1D716", "U+1D716", "U+1D716", "U+1D717", "U+1D717", "U+1D717", "U+1D718", "U+1D718", "U+1D718", "U+1D719", "U+1D719", "U+1D719",
      "U+1D71A", "U+1D71A", "U+1D71A", "U+1D71B", "U+1D71B", "U+1D71B", "U+1D71C", "U+1D71C", "U+1D71C", "U+1D71D", "U+1D71D", "U+1D71D",
      "U+1D71E", "U+1D71E", "U+1D71E", "U+1D71F", "U+1D71F", "U+1D71F", "U+1D720", "U+1D720", "U+1D720", "U+1D721", "U+1D721", "U+1D721",
      "U+1D722", "U+1D722", "U+1D722", "U+1D723", "U+1D723", "U+1D723", "U+1D724", "U+1D724", "U+1D724", "U+1D725", "U+1D725", "U+1D725",
      "U+1D726", "U+1D726", "U+1D726", "U+1D727", "U+1D727", "U+1D727", "U+1D728", "U+1D728", "U+1D728", "U+1D729", "U+1D729", "U+1D729",
      "U+1D72A", "U+1D72A", "U+1D72A", "U+1D72B", "U+1D72B", "U+1D72B", "U+1D72C", "U+1D72C", "U+1D72C", "U+1D72D", "U+1D72D", "U+1D72D",
      "U+1D72E", "U+1D72E", "U+1D72E", "U+1D72F", "U+1D72F", "U+1D72F", "U+1D730", "U+1D730", "U+1D730", "U+1D731", "U+1D731", "U+1D731",
      "U+1D732", "U+1D732", "U+1D732", "U+1D733", "U+1D733", "U+1D733", "U+1D734", "U+1D734", "U+1D734", "U+1D736", "U+1D736", "U+1D736",
      "U+1D737", "U+1D737", "U+1D737", "U+1D738", "U+1D738", "U+1D738", "U+1D739", "U+1D739", "U+1D739", "U+1D73A", "U+1D73A", "U+1D73A",
      "U+1D73B", "U+1D73B", "U+1D73B", "U+1D73C", "U+1D73C", "U+1D73C", "U+1D73D", "U+1D73D", "U+1D73D", "U+1D73E", "U+1D73E", "U+1D73E",
      "U+1D73F", "U+1D73F", "U+1D73F", "U+1D740", "U+1D740", "U+1D740", "U+1D741", "U+1D741", "U+1D741", "U+1D742", "U+1D742", "U+1D742",
      "U+1D743", "U+1D743", "U+1D743", "U+1D744", "U+1D744", "U+1D744", "U+1D745", "U+1D745", "U+1D745", "U+1D746", "U+1D746", "U+1D746",
      "U+1D747", "U+1D747", "U+1D747", "U+1D748", "U+1D748", "U+1D748", "U+1D749", "U+1D749", "U+1D749", "U+1D74A", "U+1D74A", "U+1D74A",
      "U+1D74B", "U+1D74B", "U+1D74B", "U+1D74C", "U+1D74C", "U+1D74C", "U+1D74D", "U+1D74D", "U+1D74D", "U+1D74E", "U+1D74E", "U+1D74E",
      "U+1D750", "U+1D750", "U+1D750", "U+1D751", "U+1D751", "U+1D751", "U+1D752", "U+1D752", "U+1D752", "U+1D753", "U+1D753", "U+1D753",
      "U+1D754", "U+1D754", "U+1D754", "U+1D755", "U+1D755", "U+1D755", "U+1D756", "U+1D756", "U+1D756", "U+1D757", "U+1D757", "U+1D757",
      "U+1D758", "U+1D758", "U+1D758", "U+1D759", "U+1D759", "U+1D759", "U+1D75A", "U+1D75A", "U+1D75A", "U+1D75B", "U+1D75B", "U+1D75B",
      "U+1D75C", "U+1D75C", "U+1D75C", "U+1D75D", "U+1D75D", "U+1D75D", "U+1D75E", "U+1D75E", "U+1D75E", "U+1D75F", "U+1D75F", "U+1D75F",
      "U+1D760", "U+1D760", "U+1D760", "U+1D761", "U+1D761", "U+1D761", "U+1D762", "U+1D762", "U+1D762", "U+1D763", "U+1D763", "U+1D763",
      "U+1D764", "U+1D764", "U+1D764", "U+1D765", "U+1D765", "U+1D765", "U+1D766", "U+1D766", "U+1D766", "U+1D767", "U+1D767", "U+1D767",
      "U+1D768", "U+1D768", "U+1D768", "U+1D769", "U+1D769", "U+1D769", "U+1D76A", "U+1D76A", "U+1D76A", "U+1D76B", "U+1D76B", "U+1D76B",
      "U+1D76C", "U+1D76C", "U+1D76C", "U+1D76D", "U+1D76D", "U+1D76D", "U+1D76E", "U+1D76E", "U+1D76E", "U+1D770", "U+1D770", "U+1D770",
      "U+1D771", "U+1D771", "U+1D771", "U+1D772", "U+1D772", "U+1D772", "U+1D773", "U+1D773", "U+1D773", "U+1D774", "U+1D774", "U+1D774",
      "U+1D775", "U+1D775", "U+1D775", "U+1D776", "U+1D776", "U+1D776", "U+1D777", "U+1D777", "U+1D777", "U+1D778", "U+1D778", "U+1D778",
      "U+1D779", "U+1D779", "U+1D779", "U+1D77A", "U+1D77A", "U+1D77A", "U+1D77B", "U+1D77B", "U+1D77B", "U+1D77C", "U+1D77C", "U+1D77C",
      "U+1D77D", "U+1D77D", "U+1D77D", "U+1D77E", "U+1D77E", "U+1D77E", "U+1D77F", "U+1D77F", "U+1D77F", "U+1D780", "U+1D780", "U+1D780",
      "U+1D781", "U+1D781", "U+1D781", "U+1D782", "U+1D782", "U+1D782", "U+1D783", "U+1D783", "U+1D783", "U+1D784", "U+1D784", "U+1D784",
      "U+1D785", "U+1D785", "U+1D785", "U+1D786", "U+1D786", "U+1D786", "U+1D787", "U+1D787", "U+1D787", "U+1D788", "U+1D788", "U+1D788",
      "U+1D78A", "U+1D78A", "U+1D78A", "U+1D78B", "U+1D78B", "U+1D78B", "U+1D78C", "U+1D78C", "U+1D78C", "U+1D78D", "U+1D78D", "U+1D78D",
      "U+1D78E", "U+1D78E", "U+1D78E", "U+1D78F", "U+1D78F", "U+1D78F", "U+1D790", "U+1D790", "U+1D790", "U+1D791", "U+1D791", "U+1D791",
      "U+1D792", "U+1D792", "U+1D792", "U+1D793", "U+1D793", "U+1D793", "U+1D794", "U+1D794", "U+1D794", "U+1D795", "U+1D795", "U+1D795",
      "U+1D796", "U+1D796", "U+1D796", "U+1D797", "U+1D797", "U+1D797", "U+1D798", "U+1D798", "U+1D798", "U+1D799", "U+1D799", "U+1D799",
      "U+1D79A", "U+1D79A", "U+1D79A", "U+1D79B", "U+1D79B", "U+1D79B", "U+1D79C", "U+1D79C", "U+1D79C", "U+1D79D", "U+1D79D", "U+1D79D",
      "U+1D79E", "U+1D79E", "U+1D79E", "U+1D79F", "U+1D79F", "U+1D79F", "U+1D7A0", "U+1D7A0", "U+1D7A0", "U+1D7A1", "U+1D7A1", "U+1D7A1",
      "U+1D7A2", "U+1D7A2", "U+1D7A2", "U+1D7A3", "U+1D7A3", "U+1D7A3", "U+1D7A4", "U+1D7A4", "U+1D7A4", "U+1D7A5", "U+1D7A5", "U+1D7A5",
      "U+1D7A6", "U+1D7A6", "U+1D7A6", "U+1D7A7", "U+1D7A7", "U+1D7A7", "U+1D7A8", "U+1D7A8", "U+1D7A8", "U+1D7AA", "U+1D7AA", "U+1D7AA",
      "U+1D7AB", "U+1D7AB", "U+1D7AB", "U+1D7AC", "U+1D7AC", "U+1D7AC", "U+1D7AD", "U+1D7AD", "U+1D7AD", "U+1D7AE", "U+1D7AE", "U+1D7AE",
      "U+1D7AF", "U+1D7AF", "U+1D7AF", "U+1D7B0", "U+1D7B0", "U+1D7B0", "U+1D7B1", "U+1D7B1", "U+1D7B1", "U+1D7B2", "U+1D7B2", "U+1D7B2",
      "U+1D7B3", "U+1D7B3", "U+1D7B3", "U+1D7B4", "U+1D7B4", "U+1D7B4", "U+1D7B5", "U+1D7B5", "U+1D7B5", "U+1D7B6", "U+1D7B6", "U+1D7B6",
      "U+1D7B7", "U+1D7B7", "U+1D7B7", "U+1D7B8", "U+1D7B8", "U+1D7B8", "U+1D7B9", "U+1D7B9", "U+1D7B9", "U+1D7BA", "U+1D7BA", "U+1D7BA",
      "U+1D7BB", "U+1D7BB", "U+1D7BB", "U+1D7BC", "U+1D7BC", "U+1D7BC", "U+1D7BD", "U+1D7BD", "U+1D7BD", "U+1D7BE", "U+1D7BE", "U+1D7BE",
      "U+1D7BF", "U+1D7BF", "U+1D7BF", "U+1D7C0", "U+1D7C0", "U+1D7C0", "U+1D7C1", "U+1D7C1", "U+1D7C1", "U+1D7C2", "U+1D7C2", "U+1D7C2",
      "U+1D7C4", "U+1D7C4", "U+1D7C4", "U+1D7C5", "U+1D7C5", "U+1D7C5", "U+1D7C6", "U+1D7C6", "U+1D7C6", "U+1D7C7", "U+1D7C7", "U+1D7C7",
      "U+1D7C8", "U+1D7C8", "U+1D7C8", "U+1D7C9", "U+1D7C9", "U+1D7C9", "U+1D7CA", "U+1D7CA", "U+1D7CA", "U+1D7CB", "U+1D7CB", "U+1D7CB",
      "U+1DF00", "U+1DF00", "U+1DF00", "U+1DF01", "U+1DF01", "U+1DF01", "U+1DF02", "U+1DF02", "U+1DF02", "U+1DF03", "U+1DF03", "U+1DF03",
      "U+1DF04", "U+1DF04", "U+1DF04", "U+1DF05", "U+1DF05", "U+1DF05", "U+1DF06", "U+1DF06", "U+1DF06", "U+1DF07", "U+1DF07", "U+1DF07",
      "U+1DF08", "U+1DF08", "U+1DF08", "U+1DF09", "U+1DF09", "U+1DF09", "U+1DF0B", "U+1DF0B", "U+1DF0B", "U+1DF0C", "U+1DF0C", "U+1DF0C",
      "U+1DF0D", "U+1DF0D", "U+1DF0D", "U+1DF0E", "U+1DF0E", "U+1DF0E", "U+1DF0F", "U+1DF0F", "U+1DF0F", "U+1DF10", "U+1DF10", "U+1DF10",
      "U+1DF11", "U+1DF11", "U+1DF11", "U+1DF12", "U+1DF12", "U+1DF12", "U+1DF13", "U+1DF13", "U+1DF13", "U+1DF14", "U+1DF14", "U+1DF14",
      "U+1DF15", "U+1DF15", "U+1DF15", "U+1DF16", "U+1DF16", "U+1DF16", "U+1DF17", "U+1DF17", "U+1DF17", "U+1DF18", "U+1DF18", "U+1DF18",
      "U+1DF19", "U+1DF19", "U+1DF19", "U+1DF1A", "U+1DF1A", "U+1DF1A", "U+1DF1B", "U+1DF1B", "U+1DF1B", "U+1DF1C", "U+1DF1C", "U+1DF1C",
      "U+1DF1D", "U+1DF1D", "U+1DF1D", "U+1DF1E", "U+1DF1E", "U+1DF1E", "U+1E900", "U+1E922", "U+1E900", "U+1E901", "U+1E923", "U+1E901",
      "U+1E902", "U+1E924", "U+1E902", "U+1E903", "U+1E925", "U+1E903", "U+1E904", "U+1E926", "U+1E904", "U+1E905", "U+1E927", "U+1E905",
      "U+1E906", "U+1E928", "U+1E906", "U+1E907", "U+1E929", "U+1E907", "U+1E908", "U+1E92A", "U+1E908", "U+1E909", "U+1E92B", "U+1E909",
      "U+1E90A", "U+1E92C", "U+1E90A", "U+1E90B", "U+1E92D", "U+1E90B", "U+1E90C", "U+1E92E", "U+1E90C", "U+1E90D", "U+1E92F", "U+1E90D",
      "U+1E90E", "U+1E930", "U+1E90E", "U+1E90F", "U+1E931", "U+1E90F", "U+1E910", "U+1E932", "U+1E910", "U+1E911", "U+1E933", "U+1E911",
      "U+1E912", "U+1E934", "U+1E912", "U+1E913", "U+1E935", "U+1E913", "U+1E914", "U+1E936", "U+1E914", "U+1E915", "U+1E937", "U+1E915",
      "U+1E916", "U+1E938", "U+1E916", "U+1E917", "U+1E939", "U+1E917", "U+1E918", "U+1E93A", "U+1E918", "U+1E919", "U+1E93B", "U+1E919",
      "U+1E91A", "U+1E93C", "U+1E91A", "U+1E91B", "U+1E93D", "U+1E91B", "U+1E91C", "U+1E93E", "U+1E91C", "U+1E91D", "U+1E93F", "U+1E91D",
      "U+1E91E", "U+1E940", "U+1E91E", "U+1E91F", "U+1E941", "U+1E91F", "U+1E920", "U+1E942", "U+1E920", "U+1E921", "U+1E943", "U+1E921",
      "U+1E922", "U+1E922", "U+1E900", "U+1E923", "U+1E923", "U+1E901", "U+1E924", "U+1E924", "U+1E902", "U+1E925", "U+1E925", "U+1E903",
      "U+1E926", "U+1E926", "U+1E904", "U+1E927", "U+1E927", "U+1E905", "U+1E928", "U+1E928", "U+1E906", "U+1E929", "U+1E929", "U+1E907",
      "U+1E92A", "U+1E92A", "U+1E908", "U+1E92B", "U+1E92B", "U+1E909", "U+1E92C", "U+1E92C", "U+1E90A", "U+1E92D", "U+1E92D", "U+1E90B",
      "U+1E92E", "U+1E92E", "U+1E90C", "U+1E92F", "U+1E92F", "U+1E90D", "U+1E930", "U+1E930", "U+1E90E", "U+1E931", "U+1E931", "U+1E90F",
      "U+1E932", "U+1E932", "U+1E910", "U+1E933", "U+1E933", "U+1E911", "U+1E934", "U+1E934", "U+1E912", "U+1E935", "U+1E935", "U+1E913",
      "U+1E936", "U+1E936", "U+1E914", "U+1E937", "U+1E937", "U+1E915", "U+1E938", "U+1E938", "U+1E916", "U+1E939", "U+1E939", "U+1E917",
      "U+1E93A", "U+1E93A", "U+1E918", "U+1E93B", "U+1E93B", "U+1E919", "U+1E93C", "U+1E93C", "U+1E91A", "U+1E93D", "U+1E93D", "U+1E91B",
      "U+1E93E", "U+1E93E", "U+1E91C", "U+1E93F", "U+1E93F", "U+1E91D", "U+1E940", "U+1E940", "U+1E91E", "U+1E941", "U+1E941", "U+1E91F",
      "U+1E942", "U+1E942", "U+1E920", "U+1E943", "U+1E943", "U+1E921", "U+1F130", "U+1F130", "U+1F130", "U+1F131", "U+1F131", "U+1F131",
      "U+1F132", "U+1F132", "U+1F132", "U+1F133", "U+1F133", "U+1F133", "U+1F134", "U+1F134", "U+1F134", "U+1F135", "U+1F135", "U+1F135",
      "U+1F136", "U+1F136", "U+1F136", "U+1F137", "U+1F137", "U+1F137", "U+1F138", "U+1F138", "U+1F138", "U+1F139", "U+1F139", "U+1F139",
      "U+1F13A", "U+1F13A", "U+1F13A", "U+1F13B", "U+1F13B", "U+1F13B", "U+1F13C", "U+1F13C", "U+1F13C", "U+1F13D", "U+1F13D", "U+1F13D",
      "U+1F13E", "U+1F13E", "U+1F13E", "U+1F13F", "U+1F13F", "U+1F13F", "U+1F140", "U+1F140", "U+1F140", "U+1F141", "U+1F141", "U+1F141",
      "U+1F142", "U+1F142", "U+1F142", "U+1F143", "U+1F143", "U+1F143", "U+1F144", "U+1F144", "U+1F144", "U+1F145", "U+1F145", "U+1F145",
      "U+1F146", "U+1F146", "U+1F146", "U+1F147", "U+1F147", "U+1F147", "U+1F148", "U+1F148", "U+1F148", "U+1F149", "U+1F149", "U+1F149",
      "U+1F150", "U+1F150", "U+1F150", "U+1F151", "U+1F151", "U+1F151", "U+1F152", "U+1F152", "U+1F152", "U+1F153", "U+1F153", "U+1F153",
      "U+1F154", "U+1F154", "U+1F154", "U+1F155", "U+1F155", "U+1F155", "U+1F156", "U+1F156", "U+1F156", "U+1F157", "U+1F157", "U+1F157",
      "U+1F158", "U+1F158", "U+1F158", "U+1F159", "U+1F159", "U+1F159", "U+1F15A", "U+1F15A", "U+1F15A", "U+1F15B", "U+1F15B", "U+1F15B",
      "U+1F15C", "U+1F15C", "U+1F15C", "U+1F15D", "U+1F15D", "U+1F15D", "U+1F15E", "U+1F15E", "U+1F15E", "U+1F15F", "U+1F15F", "U+1F15F",
      "U+1F160", "U+1F160", "U+1F160", "U+1F161", "U+1F161", "U+1F161", "U+1F162", "U+1F162", "U+1F162", "U+1F163", "U+1F163", "U+1F163",
      "U+1F164", "U+1F164", "U+1F164", "U+1F165", "U+1F165", "U+1F165", "U+1F166", "U+1F166", "U+1F166", "U+1F167", "U+1F167", "U+1F167",
      "U+1F168", "U+1F168", "U+1F168", "U+1F169", "U+1F169", "U+1F169", "U+1F170", "U+1F170", "U+1F170", "U+1F171", "U+1F171", "U+1F171",
      "U+1F172", "U+1F172", "U+1F172", "U+1F173", "U+1F173", "U+1F173", "U+1F174", "U+1F174", "U+1F174", "U+1F175", "U+1F175", "U+1F175",
      "U+1F176", "U+1F176", "U+1F176", "U+1F177", "U+1F177", "U+1F177", "U+1F178", "U+1F178", "U+1F178", "U+1F179", "U+1F179", "U+1F179",
      "U+1F17A", "U+1F17A", "U+1F17A", "U+1F17B", "U+1F17B", "U+1F17B", "U+1F17C", "U+1F17C", "U+1F17C", "U+1F17D", "U+1F17D", "U+1F17D",
      "U+1F17E", "U+1F17E", "U+1F17E", "U+1F17F", "U+1F17F", "U+1F17F", "U+1F180", "U+1F180", "U+1F180", "U+1F181", "U+1F181", "U+1F181",
      "U+1F182", "U+1F182", "U+1F182", "U+1F183", "U+1F183", "U+1F183", "U+1F184", "U+1F184", "U+1F184", "U+1F185", "U+1F185", "U+1F185",
      "U+1F186", "U+1F186", "U+1F186", "U+1F187", "U+1F187", "U+1F187", "U+1F188", "U+1F188", "U+1F188", "U+1F189", "U+1F189", "U+1F189"
    >>

\* cased characters with a mapping of several characters: the character, its
\* lower case and its title case
SpecialCasing ==
    <<
      <<"ß", <<"ß">>, <<"S","s">>>>, <<"U+0130", <<"i","U+0307">>, <<"U+0130">>>>, <<"U+0149", <<"U+0149">>, <<"ʼ","N">>>>,
      <<"ǰ", <<"ǰ">>, <<"J","U+030C">>>>, <<"ΐ", <<"ΐ">>, <<"Ι","U+0308","U+0301">>>>, <<"ΰ", <<"ΰ">>, <<"Υ","U+0308","U+0301">>>>,
      <<"և", <<"և">>, <<"U+0535","ւ">>>>, <<"ẖ", <<"ẖ">>, <<"H","U+0331">>>>, <<"ẗ", <<"ẗ">>, <<"T","U+0308">>>>,
      <<"ẘ", <<"ẘ">>, <<"W","U+030A">>>>, <<"ẙ", <<"ẙ">>, <<"Y","U+030A">>>>, <<"ẚ", <<"ẚ">>, <<"A","ʾ">>>>,
      <<"U+1F50", <<"U+1F50">>, <<"Υ","U+0313">>>>, <<"U+1F52", <<"U+1F52">>, <<"Υ","U+0313","U+0300">>>>, <<"U+1F54", <<"U+1F54">>, <<"Υ","U+0313","U+0301">>>>,
      <<"U+1F56", <<"U+1F56">>, <<"Υ","U+0313","U+0342">>>>, <<"ᾲ", <<"ᾲ">>, <<"Ὰ","U+0345">>>>, <<"ᾴ", <<"ᾴ">>, <<"Ά","U+0345">>>>,
      <<"ᾶ", <<"ᾶ">>, <<"Α","U+0342">>>>, <<"ᾷ", <<"ᾷ">>, <<"Α","U+0342","U+0345">>>>, <<"ῂ", <<"ῂ">>, <<"Ὴ","U+0345">>>>,
      <<"ῄ", <<"ῄ">>, <<"Ή","U+0345">>>>, <<"ῆ", <<"ῆ">>, <<"Η","U+0342">>>>, <<"ῇ", <<"ῇ">>, <<"Η","U+0342","U+0345">>>>,
      <<"ῒ", <<"ῒ">>, <<"Ι","U+0308","U+0300">>>>, <<"ΐ", <<"ΐ">>, <<"Ι","U+0308","U+0301">>>>, <<"ῖ", <<"ῖ">>, <<"Ι","U+0342">>>>,
      <<"ῗ", <<"ῗ">>, <<"Ι","U+0308","U+0342">>>>, <<"ῢ", <<"ῢ">>, <<"Υ","U+0308","U+0300">>>>, <<"ΰ", <<"ΰ">>, <<"Υ","U+0308","U+0301">>>>,
      <<"ῤ", <<"ῤ">>, <<"Ρ","U+0313">>>>, <<"ῦ", <<"ῦ">>, <<"Υ","U+0342">>>>, <<"ῧ", <<"ῧ">>, <<"Υ","U+0308","U+0342">>>>,
      <<"ῲ", <<"ῲ">>, <<"Ὼ","U+0345">>>>, <<"ῴ", <<"ῴ">>, <<"Ώ","U+0345">>>>, <<"ῶ", <<"ῶ">>, <<"Ω","U+0342">>>>,
      <<"ῷ", <<"ῷ">>, <<"Ω","U+0342","U+0345">>>>, <<"U+FB00", <<"U+FB00">>, <<"F","f">>>>, <<"U+FB01", <<"U+FB01">>, <<"F","i">>>>,
      <<"U+FB02", <<"U+FB02">>, <<"F","l">>>>, <<"U+FB03", <<"U+FB03">>, <<"F","f","i">>>>, <<"U+FB04", <<"U+FB04">>, <<"F","f","l">>>>,
      <<"U+FB05", <<"U+FB05">>, <<"S","t">>>>, <<"U+FB06", <<"U+FB06">>, <<"S","t">>>>, <<"U+FB13", <<"U+FB13">>, <<"U+0544","U+0576">>>>,
      <<"U+FB14", <<"U+FB14">>, <<"U+0544","U+0565">>>>, <<"U+FB15", <<"U+FB15">>, <<"U+0544","U+056B">>>>, <<"U+FB16", <<"U+FB16">>, <<"U+054E","U+0576">>>>,
      <<"U+FB17", <<"U+FB17">>, <<"U+0544","U+056D">>>>
    >>

\* the case-ignorable characters
CaseIgnorable ==
    {
      "'", ".", ":", "^", "U+0060", "¨", "­", "¯", "´", "·", "¸", "ʰ",
      "ʱ", "ʲ", "ʳ", "ʴ", "ʵ", "ʶ", "ʷ", "ʸ", "ʹ", "ʺ", "ʻ", "ʼ",
      "ʽ", "ʾ", "ʿ", "ˀ", "ˁ", "˂", "˃", "˄", "˅", "ˆ", "ˇ", "ˈ",
      "ˉ", "ˊ", "ˋ", "ˌ", "ˍ", "ˎ", "ˏ", "ː", "ˑ", "˒", "˓", "˔",
      "˕", "˖", "˗", "˘", "˙", "˚", "˛", "˜", "˝", "˞", "˟", "ˠ",
      "ˡ", "ˢ", "ˣ", "ˤ", "˥", "˦", "˧", "˨", "˩", "˪", "˫", "ˬ",
      "˭", "ˮ", "˯", "˰", "˱", "˲", "˳", "˴", "˵", "˶", "˷", "˸",
      "˹", "˺", "˻", "˼", "˽", "˾", "˿", "U+0300", "U+0301", "U+0302", "U+0303", "U+0304",
      "U+0305", "U+0306", "U+0307", "U+0308", "U+0309", "U+030A", "U+030B", "U+030C", "U+030D", "U+030E", "U+030F", "U+0310",
      "U+0311", "U+0312", "U+0313", "U+0314", "U+0315", "U+0316", "U+0317", "U+0318", "U+0319", "U+031A", "U+031B", "U+031C",
      "U+031D", "U+031E", "U+031F", "U+0320", "U+0321", "U+0322", "U+0323", "U+0324", "U+0325", "U+0326", "U+0327", "U+0328",
      "U+0329", "U+032A", "U+032B", "U+032C", "U+032D", "U+032E", "U+032F", "U+0330", "U+0331", "U+0332", "U+0333", "U+0334",
      "U+0335", "U+0336", "U+0337", "U+0338", "U+0339", "U+033A", "U+033B", "U+033C", "U+033D", "U+033E", "U+033F", "U+0340",
      "U+0341", "U+0342", "U+0343", "U+0344", "U+0345", "U+0346", "U+0347", "U+0348", "U+0349", "U+034A", "U+034B", "U+034C",
      "U+034D", "U+034E", "U+034F", "U+0350", "U+0351", "U+0352", "U+0353", "U+0354", "U+0355", "U+0356", "U+0357", "U+0358",
      "U+0359", "U+035A", "U+035B", "U+035C", "U+035D", "U+035E", "U+035F", "U+0360", "U+0361", "U+0362", "U+0363", "U+0364",
      "U+0365", "U+0366", "U+0367", "U+0368", "U+0369", "U+036A", "U+036B", "U+036C", "U+036D", "U+036E", "U+036F", "U+0374",
      "U+0375", "U+037A", "΄", "΅", "·", "҃", "҄", "҅", "҆", "҇", "҈", "҉",
      "U+0559", "U+055F", "֑", "֒", "֓", "֔", "֕", "֖", "֗", "֘", "֙", "֚",
      "֛", "֜", "֝", "֞", "֟", "֠", "֡", "֢", "֣", "֤", "֥", "֦",
      "֧", "֨", "֩", "֪", "֫", "֬", "֭", "֮", "֯", "ְ", "ֱ", "ֲ",
      "ֳ", "ִ", "ֵ", "ֶ", "ַ", "ָ", "ֹ", "ֺ", "ֻ", "ּ", "ֽ", "ֿ",
      "ׁ", "ׂ", "ׄ", "ׅ", "ׇ", "״", "U+0600", "U+0601", "U+0602", "U+0603", "U+0604", "U+0605",
      "U+0610", "U+0611", "U+0612", "U+0613", "U+0614", "U+0615", "U+0616", "U+0617", "U+0618", "U+0619", "U+061A", "U+061C",
      "U+0640", "U+064B", "U+064C", "U+064D", "U+064E", "U+064F", "U+0650", "U+0651", "U+0652", "U+0653", "U+0654", "U+0655",
      "U+0656", "U+0657", "U+0658", "U+0659", "U+065A", "U+065B", "U+065C", "U+065D", "U+065E", "U+065F", "U+0670", "ۖ",
      "ۗ", "ۘ", "ۙ", "ۚ", "ۛ", "ۜ", "۝", "۟", "۠", "ۡ", "ۢ", "ۣ",
      "ۤ", "ۥ", "ۦ", "ۧ", "ۨ", "۪", "۫", "۬", "ۭ", "U+070F", "U+0711", "U+0730",
      "U+0731", "U+0732", "U+0733", "U+0734", "U+0735", "U+0736", "U+0737", "U+0738", "U+0739", "U+073A", "U+073B", "U+073C",
      "U+073D", "U+073E", "U+073F", "U+0740", "U+0741", "U+0742", "U+0743", "U+0744", "U+0745", "U+0746", "U+0747", "U+0748",
      "U+0749", "U+074A", "ަ", "ާ", "ި", "ީ", "ު", "ޫ", "ެ", "ޭ", "ޮ", "ޯ",
      "ް", "߫", "߬", "߭", "߮", "߯", "߰", "߱", "߲", "߳", "ߴ", "ߵ",
      "ߺ", "߽", "U+0816", "U+0817", "U+0818", "U+0819", "U+081A", "U+081B", "U+081C", "U+081D", "U+081E", "U+081F",
      "U+0820", "U+0821", "U+0822", "U+0823", "U+0824", "U+0825", "U+0826", "U+0827", "U+0828", "U+0829", "U+082A", "U+082B",
      "U+082C", "U+082D", "U+0859", "U+085A", "U+085B", "࢈", "࢐", "࢑", "࢘", "࢙", "࢚", "࢛",
      "࢜", "࢝", "࢞", "࢟", "ࣉ", "࣊", "࣋", "࣌", "࣍", "࣎", "࣏", "࣐",
      "࣑", "࣒", "࣓", "ࣔ", "ࣕ", "ࣖ", "ࣗ", "ࣘ", "ࣙ", "ࣚ", "ࣛ", "ࣜ",
      "ࣝ", "ࣞ", "ࣟ", "࣠", "࣡", "࣢", "ࣣ", "ࣤ", "ࣥ", "ࣦ", "ࣧ", "ࣨ",
      "ࣩ", "࣪", "࣫", "࣬", "࣭", "࣮", "࣯", "ࣰ", "ࣱ", "ࣲ", "ࣳ", "ࣴ",
      "ࣵ", "ࣶ", "ࣷ", "ࣸ", "ࣹ", "ࣺ", "ࣻ", "ࣼ", "ࣽ", "ࣾ", "ࣿ", "U+0900",
      "U+0901", "U+0902", "U+093A", "U+093C", "U+0941", "U+0942", "U+0943", "U+0944", "U+0945", "U+0946", "U+0947", "U+0948",
      "U+094D", "U+0951", "U+0952", "U+0953", "U+0954", "U+0955", "U+0956", "U+0957", "U+0962", "U+0963", "U+0971", "ঁ",
      "়", "ু", "ূ", "ৃ", "ৄ", "্", "ৢ", "ৣ", "৾", "U+0A01", "U+0A02", "U+0A3C",
      "U+0A41", "U+0A42", "U+0A47", "U+0A48", "U+0A4B", "U+0A4C", "U+0A4D", "U+0A51", "U+0A70", "U+0A71", "U+0A75", "ઁ",
      "ં", "઼", "ુ", "ૂ", "ૃ", "ૄ", "ૅ", "ે", "ૈ", "્", "ૢ", "ૣ",
      "ૺ", "ૻ", "ૼ", "૽", "૾", "૿", "U+0B01", "U+0B3C", "U+0B3F", "U+0B41", "U+0B42", "U+0B43",
      "U+0B44", "U+0B4D", "U+0B55", "U+0B56", "U+0B62", "U+0B63", "ஂ", "ீ", "்", "U+0C00", "U+0C04", "U+0C3C",
      "U+0C3E", "U+0C3F", "U+0C40", "U+0C46", "U+0C47", "U+0C48", "U+0C4A", "U+0C4B", "U+0C4C", "U+0C4D", "U+0C55", "U+0C56",
      "U+0C62", "U+0C63", "ಁ", "಼", "ಿ", "ೆ", "ೌ", "್", "ೢ", "ೣ", "U+0D00", "U+0D01",
      "U+0D3B", "U+0D3C", "U+0D41", "U+0D42", "U+0D43", "U+0D44", "U+0D4D", "U+0D62", "U+0D63", "ඁ", "්", "ි",
      "ී", "ු", "ූ", "U+0E31", "U+0E34", "U+0E35", "U+0E36", "U+0E37", "U+0E38", "U+0E39", "U+0E3A", "U+0E46",
      "U+0E47", "U+0E48", "U+0E49", "U+0E4A", "U+0E4B", "U+0E4C", "U+0E4D", "U+0E4E", "ັ", "ິ", "ີ", "ຶ",
      "ື", "ຸ", "ູ", "຺", "ົ", "ຼ", "ໆ", "່", "້", "໊", "໋", "໌",
      "ໍ", "U+0F18", "U+0F19", "U+0F35", "U+0F37", "U+0F39", "U+0F71", "U+0F72", "U+0F73", "U+0F74", "U+0F75", "U+0F76",
      "U+0F77", "U+0F78", "U+0F79", "U+0F7A", "U+0F7B", "U+0F7C", "U+0F7D", "U+0F7E", "ྀ", "ཱྀ", "ྂ", "ྃ",
      "྄", "྆", "྇", "ྍ", "ྎ", "ྏ", "ྐ", "ྑ", "ྒ", "ྒྷ", "ྔ", "ྕ",
      "ྖ", "ྗ", "ྙ", "ྚ", "ྛ", "ྜ", "ྜྷ", "ྞ", "ྟ", "ྠ", "ྡ", "ྡྷ",
      "ྣ", "ྤ", "ྥ", "ྦ", "ྦྷ", "ྨ", "ྩ", "ྪ", "ྫ", "ྫྷ", "ྭ", "ྮ",
      "ྯ", "ྰ", "ྱ", "ྲ", "ླ", "ྴ", "ྵ", "ྶ", "ྷ", "ྸ", "ྐྵ", "ྺ",
      "ྻ", "ྼ", "࿆", "U+102D", "U+102E", "U+102F", "U+1030", "U+1032", "U+1033", "U+1034", "U+1035", "U+1036",
      "U+1037", "U+1039", "U+103A", "U+103D", "U+103E", "U+1058", "U+1059", "U+105E", "U+105F", "U+1060", "U+1071", "U+1072",
      "U+1073", "U+1074", "ႂ", "ႅ", "ႆ", "ႍ", "ႝ", "ჼ", "U+135D", "U+135E", "U+135F", "U+1712",
      "U+1713", "U+1714", "U+1732", "U+1733", "U+1752", "U+1753", "U+1772", "U+1773", "឴", "឵", "ិ", "ី",
      "ឹ", "ឺ", "ុ", "ូ", "ួ", "ំ", "៉", "៊", "់", "៌", "៍", "៎",
      "៏", "័", "៑", "្", "៓", "ៗ", "៝", "U+180B", "U+180C", "U+180D", "U+180E", "U+180F",
      "U+1843", "ᢅ", "ᢆ", "ᢩ", "U+1920", "U+1921", "U+1922", "U+1927", "U+1928", "U+1932", "U+1939", "U+193A",
      "U+193B", "U+1A17", "U+1A18", "U+1A1B", "U+1A56", "U+1A58", "U+1A59", "U+1A5A", "U+1A5B", "U+1A5C", "U+1A5D", "U+1A5E",
      "U+1A60", "U+1A62", "U+1A65", "U+1A66", "U+1A67", "U+1A68", "U+1A69", "U+1A6A", "U+1A6B", "U+1A6C", "U+1A73", "U+1A74",
      "U+1A75", "U+1A76", "U+1A77", "U+1A78", "U+1A79", "U+1A7A", "U+1A7B", "U+1A7C", "U+1A7F", "ᪧ", "᪰", "᪱",
      "᪲", "᪳", "᪴", "᪵", "᪶", "᪷", "᪸", "᪹", "᪺", "᪻", "᪼", "᪽",
      "᪾", "ᪿ", "ᫀ", "᫁", "᫂", "᫃", "᫄", "᫅", "᫆", "᫇", "᫈", "᫉",
      "᫊", "᫋", "ᫌ", "ᫍ", "ᫎ", "U+1B00", "U+1B01", "U+1B02", "U+1B03", "U+1B34", "U+1B36", "U+1B37",
      "U+1B38", "U+1B39", "U+1B3A", "U+1B3C", "U+1B42", "U+1B6B", "U+1B6C", "U+1B6D", "U+1B6E", "U+1B6F", "U+1B70", "U+1B71",
      "U+1B72", "U+1B73", "ᮀ", "ᮁ", "ᮢ", "ᮣ", "ᮤ", "ᮥ", "ᮨ", "ᮩ", "᮫", "ᮬ",
      "ᮭ", "᯦", "ᯨ", "ᯩ", "ᯭ", "ᯯ", "ᯰ", "ᯱ", "U+1C2C", "U+1C2D", "U+1C2E", "U+1C2F",
      "U+1C30", "U+1C31", "U+1C32", "U+1C33", "U+1C36", "U+1C37", "U+1C78", "U+1C79", "U+1C7A", "U+1C7B", "U+1C7C", "U+1C7D",
      "᳐", "᳑", "᳒", "᳔", "᳕", "᳖", "᳗", "᳘", "᳙", "᳚", "᳛", "᳜",
      "᳝", "᳞", "᳟", "᳠", "᳢", "᳣", "᳤", "᳥", "᳦", "᳧", "᳨", "᳭",
      "᳴", "᳸", "᳹", "U+1D2C", "U+1D2D", "U+1D2E", "U+1D2F", "U+1D30", "U+1D31", "U+1D32", "U+1D33", "U+1D34",
      "U+1D35", "U+1D36", "U+1D37", "U+1D38", "U+1D39", "U+1D3A", "U+1D3B", "U+1D3C", "U+1D3D", "U+1D3E", "U+1D3F", "U+1D40",
      "U+1D41", "U+1D42", "U+1D43", "U+1D44", "U+1D45", "U+1D46", "U+1D47", "U+1D48", "U+1D49", "U+1D4A", "U+1D4B", "U+1D4C",
      "U+1D4D", "U+1D4E", "U+1D4F", "U+1D50", "U+1D51", "U+1D52", "U+1D53", "U+1D54", "U+1D55", "U+1D56", "U+1D57", "U+1D58",
      "U+1D59", "U+1D5A", "U+1D5B", "U+1D5C", "U+1D5D", "U+1D5E", "U+1D5F", "U+1D60", "U+1D61", "U+1D62", "U+1D63", "U+1D64",
      "U+1D65", "U+1D66", "U+1D67", "U+1D68", "U+1D69", "U+1D6A", "U+1D78", "ᶛ", "ᶜ", "ᶝ", "ᶞ", "ᶟ",
      "ᶠ", "ᶡ", "ᶢ", "ᶣ", "ᶤ", "ᶥ", "ᶦ", "ᶧ", "ᶨ", "ᶩ", "ᶪ", "ᶫ",
      "ᶬ", "ᶭ", "ᶮ", "ᶯ", "ᶰ", "ᶱ", "ᶲ", "ᶳ", "ᶴ", "ᶵ", "ᶶ", "ᶷ",
      "ᶸ", "ᶹ", "ᶺ", "ᶻ", "ᶼ", "ᶽ", "ᶾ", "ᶿ", "᷀", "᷁", "᷂", "᷃",
      "᷄", "᷅", "᷆", "᷇", "᷈", "᷉", "᷊", "᷋", "᷌", "᷍", "᷎", "᷏",
      "᷐", "᷑", "᷒", "ᷓ", "ᷔ", "ᷕ", "ᷖ", "ᷗ", "ᷘ", "ᷙ", "ᷚ", "ᷛ",
      "ᷜ", "ᷝ", "ᷞ", "ᷟ", "ᷠ", "ᷡ", "ᷢ", "ᷣ", "ᷤ", "ᷥ", "ᷦ", "ᷧ",
      "ᷨ", "ᷩ", "ᷪ", "ᷫ", "ᷬ", "ᷭ", "ᷮ", "ᷯ", "ᷰ", "ᷱ", "ᷲ", "ᷳ",
      "ᷴ", "᷵", "᷶", "᷷", "᷸", "᷹", "᷺", "᷻", "᷼", "᷽", "᷾", "᷿",
      "᾽", "᾿", "῀", "῁", "῍", "῎", "῏", "῝", "῞", "῟", "῭", "΅",
      "`", "´", "῾", "U+200B", "U+200C", "U+200D", "U+200E", "U+200F", "U+2018", "U+2019", "U+2024", "U+2027",
      "U+202A", "U+202B", "U+202C", "U+202D", "U+202E", "U+2060", "U+2061", "U+2062", "U+2063", "U+2064", "U+2066", "U+2067",
      "U+2068", "U+2069", "U+206A", "U+206B", "U+206C", "U+206D", "U+206E", "U+206F", "U+2071", "U+207F", "U+2090", "U+2091",
      "U+2092", "U+2093", "U+2094", "U+2095", "U+2096", "U+2097", "U+2098", "U+2099", "U+209A", "U+209B", "U+209C", "U+20D0",
      "U+20D1", "U+20D2", "U+20D3", "U+20D4", "U+20D5", "U+20D6", "U+20D7", "U+20D8", "U+20D9", "U+20DA", "U+20DB", "U+20DC",
      "U+20DD", "U+20DE", "U+20DF", "U+20E0", "U+20E1", "U+20E2", "U+20E3", "U+20E4", "U+20E5", "U+20E6", "U+20E7", "U+20E8",
      "U+20E9", "U+20EA", "U+20EB", "U+20EC", "U+20ED", "U+20EE", "U+20EF", "U+20F0", "U+2C7C", "U+2C7D", "U+2CEF", "U+2CF0",
      "U+2CF1", "U+2D6F", "U+2D7F", "U+2DE0", "U+2DE1", "U+2DE2", "U+2DE3", "U+2DE4", "U+2DE5", "U+2DE6", "U+2DE7", "U+2DE8",
      "U+2DE9", "U+2DEA", "U+2DEB", "U+2DEC", "U+2DED", "U+2DEE", "U+2DEF", "U+2DF0", "U+2DF1", "U+2DF2", "U+2DF3", "U+2DF4",
      "U+2DF5", "U+2DF6", "U+2DF7", "U+2DF8", "U+2DF9", "U+2DFA", "U+2DFB", "U+2DFC", "U+2DFD", "U+2DFE", "U+2DFF", "U+2E2F",
      "U+3005", "U+302A", "U+302B", "U+302C", "U+302D", "U+3031", "U+3032", "U+3033", "U+3034", "U+3035", "U+303B", "U+3099",
      "U+309A", "U+309B", "U+309C", "U+309D", "U+309E", "U+30FC", "U+30FD", "U+30FE", "U+A015", "U+A4F8", "U+A4F9", "U+A4FA",
      "U+A4FB", "U+A4FC", "U+A4FD", "U+A60C", "U+A66F", "U+A670", "U+A671", "U+A672", "U+A674", "U+A675", "U+A676", "U+A677",
      "U+A678", "U+A679", "U+A67A", "U+A67B", "U+A67C", "U+A67D", "U+A67F", "U+A69C", "U+A69D", "U+A69E", "U+A69F", "U+A6F0",
      "U+A6F1", "U+A700", "U+A701", "U+A702", "U+A703", "U+A704", "U+A705", "U+A706", "U+A707", "U+A708", "U+A709", "U+A70A",
      "U+A70B", "U+A70C", "U+A70D", "U+A70E", "U+A70F", "U+A710", "U+A711", "U+A712", "U+A713", "U+A714", "U+A715", "U+A716",
      "U+A717", "U+A718", "U+A719", "U+A71A", "U+A71B", "U+A71C", "U+A71D", "U+A71E", "U+A71F", "U+A720", "U+A721", "U+A770",
      "U+A788", "U+A789", "U+A78A", "U+A7F2", "U+A7F3", "U+A7F4", "U+A7F8", "U+A7F9", "U+A802", "U+A806", "U+A80B", "U+A825",
      "U+A826", "U+A82C", "U+A8C4", "U+A8C5", "U+A8E0", "U+A8E1", "U+A8E2", "U+A8E3", "U+A8E4", "U+A8E5", "U+A8E6", "U+A8E7",
      "U+A8E8", "U+A8E9", "U+A8EA", "U+A8EB", "U+A8EC", "U+A8ED", "U+A8EE", "U+A8EF", "U+A8F0", "U+A8F1", "U+A8FF", "U+A926",
      "U+A927", "U+A928", "U+A929", "U+A92A", "U+A92B", "U+A92C", "U+A92D", "U+A947", "U+A948", "U+A949", "U+A94A", "U+A94B",
      "U+A94C", "U+A94D", "U+A94E", "U+A94F", "U+A950", "U+A951", "U+A980", "U+A981", "U+A982", "U+A9B3", "U+A9B6", "U+A9B7",
      "U+A9B8", "U+A9B9", "U+A9BC", "U+A9BD", "U+A9CF", "U+A9E5", "U+A9E6", "U+AA29", "U+AA2A", "U+AA2B", "U+AA2C", "U+AA2D",
      "U+AA2E", "U+AA31", "U+AA32", "U+AA35", "U+AA36", "U+AA43", "U+AA4C", "U+AA70", "U+AA7C", "U+AAB0", "U+AAB2", "U+AAB3",
      "U+AAB4", "U+AAB7", "U+AAB8", "U+AABE", "U+AABF", "U+AAC1", "U+AADD", "U+AAEC", "U+AAED", "U+AAF3", "U+AAF4", "U+AAF6",
      "U+AB5B", "U+AB5C", "U+AB5D", "U+AB5E", "U+AB5F", "U+AB69", "U+AB6A", "U+AB6B", "U+ABE5", "U+ABE8", "U+ABED", "U+FB1E",
      "U+FBB2", "U+FBB3", "U+FBB4", "U+FBB5", "U+FBB6", "U+FBB7", "U+FBB8", "U+FBB9", "U+FBBA", "U+FBBB", "U+FBBC", "U+FBBD",
      "U+FBBE", "U+FBBF", "U+FBC0", "U+FBC1", "U+FBC2", "U+FE00", "U+FE01", "U+FE02", "U+FE03", "U+FE04", "U+FE05", "U+FE06",
      "U+FE07", "U+FE08", "U+FE09", "U+FE0A", "U+FE0B", "U+FE0C", "U+FE0D", "U+FE0E", "U+FE0F", "U+FE13", "U+FE20", "U+FE21",
      "U+FE22", "U+FE23", "U+FE24", "U+FE25", "U+FE26", "U+FE27", "U+FE28", "U+FE29", "U+FE2A", "U+FE2B", "U+FE2C", "U+FE2D",
      "U+FE2E", "U+FE2F", "U+FE52", "U+FE55", "U+FEFF", "U+FF07", "U+FF0E", "U+FF1A", "U+FF3E", "U+FF40", "U+FF70", "U+FF9E",
      "U+FF9F", "U+FFE3", "U+FFF9", "U+FFFA", "U+FFFB", "U+101FD", "U+102E0", "U+10376", "U+10377", "U+10378", "U+10379", "U+1037A",
      "U+10780", "U+10781", "U+10782", "U+10783", "U+10784", "U+10785", "U+10787", "U+10788", "U+10789", "U+1078A", "U+1078B", "U+1078C",
      "U+1078D", "U+1078E", "U+1078F", "U+10790", "U+10791", "U+10792", "U+10793", "U+10794", "U+10795", "U+10796", "U+10797", "U+10798",
      "U+10799", "U+1079A", "U+1079B", "U+1079C", "U+1079D", "U+1079E", "U+1079F", "U+107A0", "U+107A1", "U+107A2", "U+107A3", "U+107A4",
      "U+107A5", "U+107A6", "U+107A7", "U+107A8", "U+107A9", "U+107AA", "U+107AB", "U+107AC", "U+107AD", "U+107AE", "U+107AF", "U+107B0",
      "U+107B2", "U+107B3", "U+107B4", "U+107B5", "U+107B6", "U+107B7", "U+107B8", "U+107B9", "U+107BA", "U+10A01", "U+10A02", "U+10A03",
      "U+10A05", "U+10A06", "U+10A0C", "U+10A0D", "U+10A0E", "U+10A0F", "U+10A38", "U+10A39", "U+10A3A", "U+10A3F", "U+10AE5", "U+10AE6",
      "U+10D24", "U+10D25", "U+10D26", "U+10D27", "U+10EAB", "U+10EAC", "U+10F46", "U+10F47", "U+10F48", "U+10F49", "U+10F4A", "U+10F4B",
      "U+10F4C", "U+10F4D", "U+10F4E", "U+10F4F", "U+10F50", "U+10F82", "U+10F83", "U+10F84", "U+10F85", "U+11001", "U+11038", "U+11039",
      "U+1103A", "U+1103B", "U+1103C", "U+1103D", "U+1103E", "U+1103F", "U+11040", "U+11041", "U+11042", "U+11043", "U+11044", "U+11045",
      "U+11046", "U+11070", "U+11073", "U+11074", "U+1107F", "U+11080", "U+11081", "U+110B3", "U+110B4", "U+110B5", "U+110B6", "U+110B9",
      "U+110BA", "U+110BD", "U+110C2", "U+110CD", "U+11100", "U+11101", "U+11102", "U+11127", "U+11128", "U+11129", "U+1112A", "U+1112B",
      "U+1112D", "U+1112E", "U+1112F", "U+11130", "U+11131", "U+11132", "U+11133", "U+11134", "U+11173", "U+11180", "U+11181", "U+111B6",
      "U+111B7", "U+111B8", "U+111B9", "U+111BA", "U+111BB", "U+111BC", "U+111BD", "U+111BE", "U+111C9", "U+111CA", "U+111CB", "U+111CC",
      "U+111CF", "U+1122F", "U+11230", "U+11231", "U+11234", "U+11236", "U+11237", "U+1123E", "U+112DF", "U+112E3", "U+112E4", "U+112E5",
      "U+112E6", "U+112E7", "U+112E8", "U+112E9", "U+112EA", "U+11300", "U+11301", "U+1133B", "U+1133C", "U+11340", "U+11366", "U+11367",
      "U+11368", "U+11369", "U+1136A", "U+1136B", "U+1136C", "U+11370", "U+11371", "U+11372", "U+11373", "U+11374", "U+11438", "U+11439",
      "U+1143A", "U+1143B", "U+1143C", "U+1143D", "U+1143E", "U+1143F", "U+11442", "U+11443", "U+11444", "U+11446", "U+1145E", "U+114B3",
      "U+114B4", "U+114B5", "U+114B6", "U+114B7", "U+114B8", "U+114BA", "U+114BF", "U+114C0", "U+114C2", "U+114C3", "U+115B2", "U+115B3",
      "U+115B4", "U+115B5", "U+115BC", "U+115BD", "U+115BF", "U+115C0", "U+115DC", "U+115DD", "U+11633", "U+11634", "U+11635", "U+11636",
      "U+11637", "U+11638", "U+11639", "U+1163A", "U+1163D", "U+1163F", "U+11640", "U+116AB", "U+116AD", "U+116B0", "U+116B1", "U+116B2",
      "U+116B3", "U+116B4", "U+116B5", "U+116B7", "U+1171D", "U+1171E", "U+1171F", "U+11722", "U+11723", "U+11724", "U+11725", "U+11727",
      "U+11728", "U+11729", "U+1172A", "U+1172B", "U+1182F", "U+11830", "U+11831", "U+11832", "U+11833", "U+11834", "U+11835", "U+11836",
      "U+11837", "U+11839", "U+1183A", "U+1193B", "U+1193C", "U+1193E", "U+11943", "U+119D4", "U+119D5", "U+119D6", "U+119D7", "U+119DA",
      "U+119DB", "U+119E0", "U+11A01", "U+11A02", "U+11A03", "U+11A04", "U+11A05", "U+11A06", "U+11A07", "U+11A08", "U+11A09", "U+11A0A",
      "U+11A33", "U+11A34", "U+11A35", "U+11A36", "U+11A37", "U+11A38", "U+11A3B", "U+11A3C", "U+11A3D", "U+11A3E", "U+11A47", "U+11A51",
      "U+11A52", "U+11A53", "U+11A54", "U+11A55", "U+11A56", "U+11A59", "U+11A5A", "U+11A5B", "U+11A8A", "U+11A8B", "U+11A8C", "U+11A8D",
      "U+11A8E", "U+11A8F", "U+11A90", "U+11A91", "U+11A92", "U+11A93", "U+11A94", "U+11A95", "U+11A96", "U+11A98", "U+11A99", "U+11C30",
      "U+11C31", "U+11C32", "U+11C33", "U+11C34", "U+11C35", "U+11C36", "U+11C38", "U+11C39", "U+11C3A", "U+11C3B", "U+11C3C", "U+11C3D",
      "U+11C3F", "U+11C92", "U+11C93", "U+11C94", "U+11C95", "U+11C96", "U+11C97", "U+11C98", "U+11C99", "U+11C9A", "U+11C9B", "U+11C9C",
      "U+11C9D", "U+11C9E", "U+11C9F", "U+11CA0", "U+11CA1", "U+11CA2", "U+11CA3", "U+11CA4", "U+11CA5", "U+11CA6", "U+11CA7", "U+11CAA",
      "U+11CAB", "U+11CAC", "U+11CAD", "U+11CAE", "U+11CAF", "U+11CB0", "U+11CB2", "U+11CB3", "U+11CB5", "U+11CB6", "U+11D31", "U+11D32",
      "U+11D33", "U+11D34", "U+11D35", "U+11D36", "U+11D3A", "U+11D3C", "U+11D3D", "U+11D3F", "U+11D40", "U+11D41", "U+11D42", "U+11D43",
      "U+11D44", "U+11D45", "U+11D47", "U+11D90", "U+11D91", "U+11D95", "U+11D97", "U+11EF3", "U+11EF4", "U+13430", "U+13431", "U+13432",
      "U+13433", "U+13434", "U+13435", "U+13436", "U+13437", "U+13438", "U+16AF0", "U+16AF1", "U+16AF2", "U+16AF3", "U+16AF4", "U+16B30",
      "U+16B31", "U+16B32", "U+16B33", "U+16B34", "U+16B35", "U+16B36", "U+16B40", "U+16B41", "U+16B42", "U+16B43", "U+16F4F", "U+16F8F",
      "U+16F90", "U+16F91", "U+16F92", "U+16F93", "U+16F94", "U+16F95", "U+16F96", "U+16F97", "U+16F98", "U+16F99", "U+16F9A", "U+16F9B",
      "U+16F9C", "U+16F9D", "U+16F9E", "U+16F9F", "U+16FE0", "U+16FE1", "U+16FE3", "U+16FE4", "U+1AFF0", "U+1AFF1", "U+1AFF2", "U+1AFF3",
      "U+1AFF5", "U+1AFF6", "U+1AFF7", "U+1AFF8", "U+1AFF9", "U+1AFFA", "U+1AFFB", "U+1AFFD", "U+1AFFE", "U+1BC9D", "U+1BC9E", "U+1BCA0",
      "U+1BCA1", "U+1BCA2", "U+1BCA3", "U+1CF00", "U+1CF01", "U+1CF02", "U+1CF03", "U+1CF04", "U+1CF05", "U+1CF06", "U+1CF07", "U+1CF08",
      "U+1CF09", "U+1CF0A", "U+1CF0B", "U+1CF0C", "U+1CF0D", "U+1CF0E", "U+1CF0F", "U+1CF10", "U+1CF11", "U+1CF12", "U+1CF13", "U+1CF14",
      "U+1CF15", "U+1CF16", "U+1CF17", "U+1CF18", "U+1CF19", "U+1CF1A", "U+1CF1B", "U+1CF1C", "U+1CF1D", "U+1CF1E", "U+1CF1F", "U+1CF20",
      "U+1CF21", "U+1CF22", "U+1CF23", "U+1CF24", "U+1CF25", "U+1CF26", "U+1CF27", "U+1CF28", "U+1CF29", "U+1CF2A", "U+1CF2B", "U+1CF2C",
      "U+1CF2D", "U+1CF30", "U+1CF31", "U+1CF32", "U+1CF33", "U+1CF34", "U+1CF35", "U+1CF36", "U+1CF37", "U+1CF38", "U+1CF39", "U+1CF3A",
      "U+1CF3B", "U+1CF3C", "U+1CF3D", "U+1CF3E", "U+1CF3F", "U+1CF40", "U+1CF41", "U+1CF42", "U+1CF43", "U+1CF44", "U+1CF45", "U+1CF46",
      "U+1D167", "U+1D168", "U+1D169", "U+1D173", "U+1D174", "U+1D175", "U+1D176", "U+1D177", "U+1D178", "U+1D179", "U+1D17A", "U+1D17B",
      "U+1D17C", "U+1D17D", "U+1D17E", "U+1D17F", "U+1D180", "U+1D181", "U+1D182", "U+1D185", "U+1D186", "U+1D187", "U+1D188", "U+1D189",
      "U+1D18A", "U+1D18B", "U+1D1AA", "U+1D1AB", "U+1D1AC", "U+1D1AD", "U+1D242", "U+1D243", "U+1D244", "U+1DA00", "U+1DA01", "U+1DA02",
      "U+1DA03", "U+1DA04", "U+1DA05", "U+1DA06", "U+1DA07", "U+1DA08", "U+1DA09", "U+1DA0A", "U+1DA0B", "U+1DA0C", "U+1DA0D", "U+1DA0E",
      "U+1DA0F", "U+1DA10", "U+1DA11", "U+1DA12", "U+1DA13", "U+1DA14", "U+1DA15", "U+1DA16", "U+1DA17", "U+1DA18", "U+1DA19", "U+1DA1A",
      "U+1DA1B", "U+1DA1C", "U+1DA1D", "U+1DA1E", "U+1DA1F", "U+1DA20", "U+1DA21", "U+1DA22", "U+1DA23", "U+1DA24", "U+1DA25", "U+1DA26",
      "U+1DA27", "U+1DA28", "U+1DA29", "U+1DA2A", "U+1DA2B", "U+1DA2C", "U+1DA2D", "U+1DA2E", "U+1DA2F", "U+1DA30", "U+1DA31", "U+1DA32",
      "U+1DA33", "U+1DA34", "U+1DA35", "U+1DA36", "U+1DA3B", "U+1DA3C", "U+1DA3D", "U+1DA3E", "U+1DA3F", "U+1DA40", "U+1DA41", "U+1DA42",
      "U+1DA43", "U+1DA44", "U+1DA45", "U+1DA46", "U+1DA47", "U+1DA48", "U+1DA49", "U+1DA4A", "U+1DA4B", "U+1DA4C", "U+1DA4D", "U+1DA4E",
      "U+1DA4F", "U+1DA50", "U+1DA51", "U+1DA52", "U+1DA53", "U+1DA54", "U+1DA55", "U+1DA56", "U+1DA57", "U+1DA58", "U+1DA59", "U+1DA5A",
      "U+1DA5B", "U+1DA5C", "U+1DA5D", "U+1DA5E", "U+1DA5F", "U+1DA60", "U+1DA61", "U+1DA62", "U+1DA63", "U+1DA64", "U+1DA65", "U+1DA66",
      "U+1DA67", "U+1DA68", "U+1DA69", "U+1DA6A", "U+1DA6B", "U+1DA6C", "U+1DA75", "U+1DA84", "U+1DA9B", "U+1DA9C", "U+1DA9D", "U+1DA9E",
      "U+1DA9F", "U+1DAA1", "U+1DAA2", "U+1DAA3", "U+1DAA4", "U+1DAA5", "U+1DAA6", "U+1DAA7", "U+1DAA8", "U+1DAA9", "U+1DAAA", "U+1DAAB",
      "U+1DAAC", "U+1DAAD", "U+1DAAE", "U+1DAAF", "U+1E000", "U+1E001", "U+1E002", "U+1E003", "U+1E004", "U+1E005", "U+1E006", "U+1E008",
      "U+1E009", "U+1E00A", "U+1E00B", "U+1E00C", "U+1E00D", "U+1E00E", "U+1E00F", "U+1E010", "U+1E011", "U+1E012", "U+1E013", "U+1E014",
      "U+1E015", "U+1E016", "U+1E017", "U+1E018", "U+1E01B", "U+1E01C", "U+1E01D", "U+1E01E", "U+1E01F", "U+1E020", "U+1E021", "U+1E023",
      "U+1E024", "U+1E026", "U+1E027", "U+1E028", "U+1E029", "U+1E02A", "U+1E130", "U+1E131", "U+1E132", "U+1E133", "U+1E134", "U+1E135",
      "U+1E136", "U+1E137", "U+1E138", "U+1E139", "U+1E13A", "U+1E13B", "U+1E13C", "U+1E13D", "U+1E2AE", "U+1E2EC", "U+1E2ED", "U+1E2EE",
      "U+1E2EF", "U+1E8D0", "U+1E8D1", "U+1E8D2", "U+1E8D3", "U+1E8D4", "U+1E8D5", "U+1E8D6", "U+1E944", "U+1E945", "U+1E946", "U+1E947",
      "U+1E948", "U+1E949", "U+1E94A", "U+1E94B", "U+1F3FB", "U+1F3FC", "U+1F3FD", "U+1F3FE", "U+1F3FF", "U+E0001", "U+E0020", "U+E0021",
      "U+E0022", "U+E0023", "U+E0024", "U+E0025", "U+E0026", "U+E0027", "U+E0028", "U+E0029", "U+E002A", "U+E002B", "U+E002C", "U+E002D",
      "U+E002E", "U+E002F", "U+E0030", "U+E0031", "U+E0032", "U+E0033", "U+E0034", "U+E0035", "U+E0036", "U+E0037", "U+E0038", "U+E0039",
      "U+E003A", "U+E003B", "U+E003C", "U+E003D", "U+E003E", "U+E003F", "U+E0040", "U+E0041", "U+E0042", "U+E0043", "U+E0044", "U+E0045",
      "U+E0046", "U+E0047", "U+E0048", "U+E0049", "U+E004A", "U+E004B", "U+E004C", "U+E004D", "U+E004E", "U+E004F", "U+E0050", "U+E0051",
      "U+E0052", "U+E0053", "U+E0054", "U+E0055", "U+E0056", "U+E0057", "U+E0058", "U+E0059", "U+E005A", "U+E005B", "U+E005C", "U+E005D",
      "U+E005E", "U+E005F", "U+E0060", "U+E0061", "U+E0062", "U+E0063", "U+E0064", "U+E0065", "U+E0066", "U+E0067", "U+E0068", "U+E0069",
      "U+E006A", "U+E006B", "U+E006C", "U+E006D", "U+E006E", "U+E006F", "U+E0070", "U+E0071", "U+E0072", "U+E0073", "U+E0074", "U+E0075",
      "U+E0076", "U+E0077", "U+E0078", "U+E0079", "U+E007A", "U+E007B", "U+E007C", "U+E007D", "U+E007E", "U+E007F", "U+E0100", "U+E0101",
      "U+E0102", "U+E0103", "U+E0104", "U+E0105", "U+E0106", "U+E0107", "U+E0108", "U+E0109", "U+E010A", "U+E010B", "U+E010C", "U+E010D",
      "U+E010E", "U+E010F", "U+E0110", "U+E0111", "U+E0112", "U+E0113", "U+E0114", "U+E0115", "U+E0116", "U+E0117", "U+E0118", "U+E0119",
      "U+E011A", "U+E011B", "U+E011C", "U+E011D", "U+E011E", "U+E011F", "U+E0120", "U+E0121", "U+E0122", "U+E0123", "U+E0124", "U+E0125",
      "U+E0126", "U+E0127", "U+E0128", "U+E0129", "U+E012A", "U+E012B", "U+E012C", "U+E012D", "U+E012E", "U+E012F", "U+E0130", "U+E0131",
      "U+E0132", "U+E0133", "U+E0134", "U+E0135", "U+E0136", "U+E0137", "U+E0138", "U+E0139", "U+E013A", "U+E013B", "U+E013C", "U+E013D",
      "U+E013E", "U+E013F", "U+E0140", "U+E0141", "U+E0142", "U+E0143", "U+E0144", "U+E0145", "U+E0146", "U+E0147", "U+E0148", "U+E0149",
      "U+E014A", "U+E014B", "U+E014C", "U+E014D", "U+E014E", "U+E014F", "U+E0150", "U+E0151", "U+E0152", "U+E0153", "U+E0154", "U+E0155",
      "U+E0156", "U+E0157", "U+E0158", "U+E0159", "U+E015A", "U+E015B", "U+E015C", "U+E015D", "U+E015E", "U+E015F", "U+E0160", "U+E0161",
      "U+E0162", "U+E0163", "U+E0164", "U+E0165", "U+E0166", "U+E0167", "U+E0168", "U+E0169", "U+E016A", "U+E016B", "U+E016C", "U+E016D",
      "U+E016E", "U+E016F", "U+E0170", "U+E0171", "U+E0172", "U+E0173", "U+E0174", "U+E0175", "U+E0176", "U+E0177", "U+E0178", "U+E0179",
      "U+E017A", "U+E017B", "U+E017C", "U+E017D", "U+E017E", "U+E017F", "U+E0180", "U+E0181", "U+E0182", "U+E0183", "U+E0184", "U+E0185",
      "U+E0186", "U+E0187", "U+E0188", "U+E0189", "U+E018A", "U+E018B", "U+E018C", "U+E018D", "U+E018E", "U+E018F", "U+E0190", "U+E0191",
      "U+E0192", "U+E0193", "U+E0194", "U+E0195", "U+E0196", "U+E0197", "U+E0198", "U+E0199", "U+E019A", "U+E019B", "U+E019C", "U+E019D",
      "U+E019E", "U+E019F", "U+E01A0", "U+E01A1", "U+E01A2", "U+E01A3", "U+E01A4", "U+E01A5", "U+E01A6", "U+E01A7", "U+E01A8", "U+E01A9",
      "U+E01AA", "U+E01AB", "U+E01AC", "U+E01AD", "U+E01AE", "U+E01AF", "U+E01B0", "U+E01B1", "U+E01B2", "U+E01B3", "U+E01B4", "U+E01B5",
      "U+E01B6", "U+E01B7", "U+E01B8", "U+E01B9", "U+E01BA", "U+E01BB", "U+E01BC", "U+E01BD", "U+E01BE", "U+E01BF", "U+E01C0", "U+E01C1",
      "U+E01C2", "U+E01C3", "U+E01C4", "U+E01C5", "U+E01C6", "U+E01C7", "U+E01C8", "U+E01C9", "U+E01CA", "U+E01CB", "U+E01CC", "U+E01CD",
      "U+E01CE", "U+E01CF", "U+E01D0", "U+E01D1", "U+E01D2", "U+E01D3", "U+E01D4", "U+E01D5", "U+E01D6", "U+E01D7", "U+E01D8", "U+E01D9",
      "U+E01DA", "U+E01DB", "U+E01DC", "U+E01DD", "U+E01DE", "U+E01DF", "U+E01E0", "U+E01E1", "U+E01E2", "U+E01E3", "U+E01E4", "U+E01E5",
      "U+E01E6", "U+E01E7", "U+E01E8", "U+E01E9", "U+E01EA", "U+E01EB", "U+E01EC", "U+E01ED", "U+E01EE", "U+E01EF"
    }

CaseRows == Len(CaseTable) \div 3

SimplyCased == {CaseTable[3 * k - 2] : k \in 1..CaseRows}
SpeciallyCased == {SpecialCasing[k][1] : k \in 1..Len(SpecialCasing)}

\* the row of a character of SimplyCased: <<character, lower case, title case>>
CaseRow(c) ==
    LET k == CHOOSE k \in 1..CaseRows : CaseTable[3 * k - 2] = c
    IN  SubSeq(CaseTable, 3 * k - 2, 3 * k)

\* the row of a character of SpeciallyCased
SpecialRow(c) == SpecialCasing[CHOOSE k \in 1..Len(SpecialCasing) : SpecialCasing[k][1] = c]

\* the characters str.title() and str.lower() take for letters of a word
IsCased(c) ==
    \/ LetterIndex(UpperCase, c) > 0
    \/ LetterIndex(LowerCase, c) > 0
    \/ c \in SimplyCased
    \/ c \in SpeciallyCased

\* the characters the final-sigma rule of str.lower() looks through
IsCaseIgnorable(c) == c \in CaseIgnorable

\* the lower-case mapping of one character: a string of one or more characters
chr_lower(c) ==
    IF LetterIndex(UpperCase, c) > 0 THEN <<LowerCase[LetterIndex(UpperCase, c)]>>
    ELSE IF c \in SimplyCased THEN <<CaseRow(c)[2]>>
    ELSE IF c \in SpeciallyCased THEN SpecialRow(c)[2]
    ELSE <<c>>

\* the title-case mapping of one character: a string of one or more characters
chr_title(c) ==
    IF LetterIndex(LowerCase, c) > 0 THEN <<UpperCase[LetterIndex(LowerCase, c)]>>
    ELSE IF c \in SimplyCased THEN <<CaseRow(c)[3]>>
    ELSE IF c \in SpeciallyCased THEN SpecialRow(c)[3]
    ELSE <<c>>

CapitalSigma == "Σ"
SmallSigma == "σ"
FinalSigma == "ς"

\* a capital sigma is lowered to the final form when the nearest character
\* before it that is not case-ignorable is cased, and the nearest one after
\* it is missing or uncased
IsFinalSigma(s, i) ==
    LET before == {j \in 1..(i - 1) : ~IsCaseIgnorable(s[j])}
        after  == {j \in (i + 1)..Len(s) : ~IsCaseIgnorable(s[j])}
        last   == CHOOSE j \in before : \A k \in before : k <= j
        first  == CHOOSE j \in after : \A k \in after : j <= k
    IN  /\ before # {}
        /\ IsCased(s[last])
        /\ (after = {} \/ ~IsCased(s[first]))

\* what str.lower() puts in the place of s[i]
lower_at(s, i) ==
    IF s[i] = CapitalSigma
    THEN <<IF IsFinalSigma(s, i) THEN FinalSigma ELSE SmallSigma>>
    ELSE chr_lower(s[i])

\* what str.title() puts in the place of s[i]: a character is lowered when
\* the character before it is cased, and title-cased otherwise
title_at(s, i) ==
    IF i > 1 /\ IsCased(s[i - 1]) THEN lower_at(s, i) ELSE chr_title(s[i])

RECURSIVE lower_from(_, _)
lower_from(s, i) ==
    IF i > Len(s) THEN <<>> ELSE lower_at(s, i) \o lower_from(s, i + 1)

RECURSIVE title_from(_, _)
title_from(s, i) ==
    IF i > Len(s) THEN <<>> ELSE title_at(s, i) \o title_from(s, i + 1)

\* str.lower()
str_lower(s) == lower_from(s, 1)

\* str.title()
str_title(s) == title_from(s, 1)

\* str.startswith(p) and str.endswith(p)
str_startswith(s, p) == Len(p) <= Len(s) /\ SubSeq(s, 1, Len(p)) = p
str_endswith(s, p) == Len(p) <= Len(s) /\ SubSeq(s, Len(s) - Len(p) + 1, Len(s)) = p

\* k in s
str_contains(s, k) ==
    \E i \in 0..(Len(s) - Len(k)) : SubSeq(s, i + 1, i + Len(k)) = k

\* any(keyword in s for keyword in kws)
any_keyword_in(s, kws) == \E j \in 1..Len(kws) : str_contains(s, kws[j])

\* s.replace(a, b) for single characters a, b
str_replace_chr(s, a, b) == [i \in 1..Len(s) |-> IF s[i] = a THEN b ELSE s[i]]

\* s.split(sep) for a single-character separator: the list of the pieces
RECURSIVE str_split(_, _)
str_split(s, sep) ==
    IF \A i \in 1..Len(s) : s[i] # sep THEN <<s>>
    ELSE LET p == CHOOSE i \in 1..Len(s) :
                      s[i] = sep /\ \A j \in 1..(i-1) : s[j] # sep
         IN  <<SubSeq(s, 1, p - 1)>> \o str_split(SubSeq(s, p + 1, Len(s)), sep)

(***************************************************************************)
(* infer_category_from_name                                                *)
(***************************************************************************)
QualifierWords == {<<"T","Y","P","E">>, <<"S","L","O","T">>, <<"B","O","N","U","S">>}

infer_category_from_name(name) ==
    IF name \in {<<"T","R","U","E">>, <<"F","A","L","S","E">>} THEN <<"B","a","s","i","c">>
    ELSE IF name = <<"P","I">> THEN <<"M","a","t","h">>
    ELSE LET parts == str_split(name, "_")
         IN  IF Len(parts) > 1
             THEN LET prefix == IF Len(parts) > 2 /\ parts[2] \in QualifierWords
                                THEN parts[1] \o <<"_">> \o parts[2]
                                ELSE parts[1]
                      category == str_title(str_replace_chr(prefix, "_", " "))
                  IN  IF str_endswith(category, <<"s">>) /\ Len(category) > 1
                      THEN SubSeq(category, 1, Len(category) - 1)
                      ELSE category
             ELSE <<"O","t","h","e","r">>

(***************************************************************************)
(* infer_category_from_function_name                                       *)
(***************************************************************************)
CorePrefixes   == <<<<"g","e","t">>, <<"s","e","t">>, <<"i","s">>, <<"h","a","s">>>>
ObjectKeywords == <<<<"p","c">>, <<"p","l","a","y","e","r">>, <<"c","h","a","r","a","c","t","e","r">>, <<"o","b","j","e","c","t">>, <<"c","r","e","a","t","u","r","e">>>>
PartyKeywords  == <<<<"p","a","r","t","y">>, <<"n","p","c">>, <<"a","v","a","i","l","a","b","l","e">>>>
ItemKeywords   == <<<<"i","t","e","m">>, <<"i","n","v","e","n","t","o","r","y">>, <<"e","q","u","i","p","p","e","d">>>>
LocationKeywords  == <<<<"a","r","e","a">>, <<"l","o","c","a","t","i","o","n">>, <<"p","o","s","i","t","i","o","n">>, <<"f","a","c","i","n","g">>>>
CharacterKeywords == <<<<"a","b","i","l","i","t","y">>, <<"s","k","i","l","l">>, <<"l","e","v","e","l">>, <<"c","l","a","s","s">>>>
VariableKeywords  == <<<<"g","l","o","b","a","l">>, <<"l","o","c","a","l">>>>
GameStateKeywords == <<<<"t","i","m","e">>, <<"d","a","y">>, <<"h","o","u","r">>, <<"m","o","d","u","l","e">>>>
CombatKeywords == <<<<"d","a","m","a","g","e">>, <<"a","t","t","a","c","k">>, <<"c","o","m","b","a","t">>, <<"w","e","a","p","o","n">>, <<"a","r","m","o","r">>>>
DialogKeywords == <<<<"s","p","e","a","k">>, <<"c","o","n","v","e","r","s","a","t","i","o","n">>, <<"d","i","a","l","o","g">>>>
AudioVisualKeywords == <<<<"p","l","a","y">>, <<"s","o","u","n","d">>, <<"m","u","s","i","c">>, <<"v","i","s","u","a","l">>, <<"c","a","m","e","r","a">>>>
MovementKeywords == <<<<"m","o","v","e">>, <<"j","u","m","p">>, <<"t","e","l","e","p","o","r","t">>, <<"w","a","l","k">>>>
ScriptKeywords == <<<<"e","x","e","c","u","t","e">>, <<"s","c","r","i","p","t">>, <<"e","v","e","n","t">>, <<"s","i","g","n","a","l">>>>
MathKeywords   == <<<<"r","a","n","d","o","m">>, <<"f","l","o","a","t">>, <<"i","n","t">>, <<"v","e","c","t","o","r">>, <<"d","i","s","t","a","n","c","e">>>>
SaveLoadKeywords == <<<<"s","t","o","r","e">>, <<"s","a","v","e">>, <<"l","o","a","d">>>>
ForceKeywords  == <<<<"f","o","r","c","e">>, <<"p","o","w","e","r">>>>

\* name_lower.startswith(('get', 'set', 'is', 'has'))
HasCorePrefix(nl) == \E j \in 1..Len(CorePrefixes) : str_startswith(nl, CorePrefixes[j])

\* the inner if/elif chain of the 'get'/'set'/'is'/'has' branch; <<>> when
\* none of its tests holds and control leaves the branch without returning
CoreCategory(nl) ==
    IF any_keyword_in(nl, ObjectKeywords) THEN <<"O","b","j","e","c","t">>
    ELSE IF any_keyword_in(nl, PartyKeywords) THEN <<"P","a","r","t","y">>
    ELSE IF any_keyword_in(nl, ItemKeywords) THEN <<"I","t","e","m">>
    ELSE IF any_keyword_in(nl, LocationKeywords) THEN <<"L","o","c","a","t","i","o","n">>
    ELSE IF any_keyword_in(nl, CharacterKeywords) THEN <<"C","h","a","r","a","c","t","e","r">>
    ELSE IF any_keyword_in(nl, VariableKeywords) THEN <<"V","a","r","i","a","b","l","e">>
    ELSE IF any_keyword_in(nl, GameStateKeywords) THEN <<"G","a","m","e"," ","S","t","a","t","e">>
    ELSE <<>>

\* the elif branches that follow the 'get'/'set'/'is'/'has' branch; <<>> when
\* none of them holds
LaterCategory(nl) ==
    IF str_startswith(nl, <<"a","c","t","i","o","n">>) THEN <<"A","c","t","i","o","n">>
    ELSE IF str_startswith(nl, <<"e","f","f","e","c","t">>) \/ str_contains(nl, <<"e","f","f","e","c","t">>) THEN <<"E","f","f","e","c","t">>
    ELSE IF any_keyword_in(nl, CombatKeywords) THEN <<"C","o","m","b","a","t">>
    ELSE IF any_keyword_in(nl, DialogKeywords) THEN <<"D","i","a","l","o","g">>
    ELSE IF any_keyword_in(nl, AudioVisualKeywords) THEN <<"A","u","d","i","o","/","V","i","s","u","a","l">>
    ELSE IF any_keyword_in(nl, MovementKeywords) THEN <<"M","o","v","e","m","e","n","t">>
    ELSE IF any_keyword_in(nl, ScriptKeywords) THEN <<"S","c","r","i","p","t">>
    ELSE IF any_keyword_in(nl, MathKeywords) THEN <<"M","a","t","h">>
    ELSE IF any_keyword_in(nl, SaveLoadKeywords) THEN <<"S","a","v","e","/","L","o","a","d">>
    ELSE IF any_keyword_in(nl, ForceKeywords) THEN <<"F","o","r","c","e">>
    ELSE <<>>

\* The later branches are elif branches of the prefix test itself: a name
\* with a core prefix never reaches them.
infer_category_from_function_name(name) ==
    LET name_lower == str_lower(name)
        found == IF HasCorePrefix(name_lower) THEN CoreCategory(name_lower)
                 ELSE LaterCategory(name_lower)
    IN  IF found # <<>> THEN found ELSE <<"G","e","n","e","r","a","l">>

(***************************************************************************)
(* The categorizers applied to names drawn from bounded sets.              *)
(***************************************************************************)
SegPool == {<<>>, <<"T","R","U","E">>, <<"P","I">>, <<"F","O","R","C","E">>, <<"P","O","W","E","R">>, <<"H","E","A","L">>, <<"T","Y","P","E">>, <<"I","t","e","m","s">>, <<"s">>,
            <<"É","C","O","L","E","S">>, <<"ß","s">>}

WordPool == {<<"G","e","t">>, <<"S","e","t">>, <<"I","s">>, <<"H","a","s">>, <<"A","c","t","i","o","n">>, <<"E","f","f","e","c","t">>, <<"C","r","e","a","t","u","r","e">>,
             <<"P","a","r","t","y">>, <<"I","t","e","m">>, <<"A","r","e","a">>, <<"S","k","i","l","l">>, <<"L","o","c","a","l">>, <<"T","i","m","e">>, <<"D","a","m","a","g","e">>,
             <<"S","p","e","a","k">>, <<"M","u","s","i","c">>, <<"J","u","m","p">>, <<"S","i","g","n","a","l">>, <<"R","a","n","d","o","m">>, <<"S","a","v","e">>,
             <<"P","o","w","e","r">>, <<"F","o","o">>, <<"S","U+212A","i","l","l">>, <<"U+0130","t","e","m">>, <<"Ο","Δ","Ο","Σ">>}

RECURSIVE JoinSegs(_)
JoinSegs(segs) ==
    IF Len(segs) = 1 THEN segs[1]
    ELSE segs[1] \o <<"_">> \o JoinSegs(Tail(segs))

RECURSIVE ConcatWords(_)
ConcatWords(ws) == IF ws = <<>> THEN <<>> ELSE ws[1] \o ConcatWords(Tail(ws))

ConstNames == { JoinSegs(segs) : segs \in UNION { [1..n -> SegPool] : n \in 1..MaxSegs } }
FuncNames  == { ConcatWords(ws) : ws \in UNION { [1..n -> WordPool] : n \in 1..MaxWords } }

CategorizeConstant ==
    \E n \in ConstNames :
        /\ cat_kind = "none"
        /\ cat_kind' = "constant"
        /\ cat_name' = n
        /\ cat_result' = infer_category_from_name(n)
        /\ UNCHANGED pipeline_vars

CategorizeFunction ==
    \E n \in FuncNames :
        /\ cat_kind = "none"
        /\ cat_kind' = "function"
        /\ cat_name' = n
        /\ cat_result' = infer_category_from_function_name(n)
        /\ UNCHANGED pipeline_vars

(***************************************************************************)
(* Syntax-tree nodes (the shapes of ast the script inspects) and the       *)
(* Python values carried by ast.Constant.                                  *)
(***************************************************************************)
\* Python values: str, int and None
py_str(s)  == [ty |-> "str",  s |-> s,    n |-> 0]
py_int(n)  == [ty |-> "int",  s |-> <<>>, n |-> n]
py_None    == [ty |-> "None", s |-> <<>>, n |-> 0]

\* an int of more decimal digits than str() converts (4300 unless the
\* interpreter is told otherwise), which a source file can write as a
\* hexadecimal literal: str() of it raises ValueError, and no number of the
\* model holds its value
py_long    == [ty |-> "long", s |-> <<>>, n |-> 0]

\* bool(v)
truthy(v) ==
    CASE v.ty = "str"  -> v.s # <<>>
      [] v.ty = "int"  -> v.n # 0
      [] v.ty = "long" -> TRUE
      [] v.ty = "None" -> FALSE

Digits == <<"0","1","2","3","4","5","6","7","8","9">>

RECURSIVE nat_to_str(_)
nat_to_str(n) ==
    IF n < 10 THEN <<Digits[n + 1]>>
    ELSE nat_to_str(n \div 10) \o <<Digits[(n % 10) + 1]>>

\* str(v) and an f-string field {v} raise ValueError
str_raises(v) == v.ty = "long"

\* str(v), also the text an f-string field {v} produces, when it does not raise
to_str(v) ==
    CASE v.ty = "str"  -> v.s
      [] v.ty = "int"  -> IF v.n < 0 THEN <<"-">> \o nat_to_str(0 - v.n) ELSE nat_to_str(v.n)
      [] v.ty = "None" -> <<"N","o","n","e">>

\* ast.Constant(value), ast.Attribute(ast.Name(id), attr), ast.List(elts),
\* ast.Call(ast.Name(id), args), and any other expression
Constant(v)         == [node |-> "Constant",  value |-> v,       id |-> "",   attr |-> <<>>, elts |-> <<>>]
Attribute(id, attr) == [node |-> "Attribute", value |-> py_None, id |-> id,   attr |-> attr, elts |-> <<>>]
List(elts)          == [node |-> "List",      value |-> py_None, id |-> "",   attr |-> <<>>, elts |-> elts]
Call(func, args)    == [node |-> "Call",      value |-> py_None, id |-> func, attr |-> <<>>, elts |-> args]
OtherExpr           == [node |-> "Other",     value |-> py_None, id |-> "",   attr |-> <<>>, elts |-> <<>>]

\* isinstance(a, ast.Attribute) and isinstance(a.value, ast.Name) and a.value.id == 'DataType'
IsDataTypeTag(a) == a.node = "Attribute" /\ a.id = "DataType"

\* results of the extract_* functions: a dict, None, or an exception
Extracted(rec) == [status |-> "dict",  rec |-> rec]
ReturnsNone    == [status |-> "None",  rec |-> <<>>]
Raises         == [status |-> "raise", rec |-> <<>>]

(***************************************************************************)
(* extract_script_constant                                                 *)
(***************************************************************************)
extract_script_constant(node) ==
    IF node.node = "Call" /\ node.id = "ScriptConstant" /\ Len(node.elts) >= 3
    THEN LET args == node.elts
             data_type == IF IsDataTypeTag(args[1]) THEN str_lower(args[1].attr) ELSE <<>>
             name == IF args[2].node = "Constant" THEN args[2].value ELSE py_None
             value == IF args[3].node = "Constant" THEN args[3].value
                      ELSE IF args[3].node = "Attribute" /\ args[3].id = "math"
                              /\ args[3].attr = <<"p","i">>
                           THEN py_str(<<"M","a","t","h",".","P","I">>)
                           ELSE py_None
         IN  IF data_type # <<>> /\ truthy(name) /\ value.ty # "None"
             THEN \* infer_category_from_name(name) calls name.split: only a str has it
                  IF name.ty = "str"
                  THEN Extracted([type |-> data_type, name |-> name.s, value |-> value,
                                  category |-> infer_category_from_name(name.s)])
                  ELSE Raises
             ELSE ReturnsNone
    ELSE ReturnsNone

(***************************************************************************)
(* extract_script_function                                                 *)
(***************************************************************************)
\* str.replace(old, new) for a non-empty old, scanning left to right
RECURSIVE str_replace(_, _, _)
str_replace(s, old, new) ==
    IF Len(s) < Len(old) THEN s
    ELSE IF SubSeq(s, 1, Len(old)) = old
         THEN new \o str_replace(SubSeq(s, Len(old) + 1, Len(s)), old, new)
         ELSE <<s[1]>> \o str_replace(Tail(s), old, new)

\* the characters str.split() and str.strip() treat as whitespace (those for
\* which str.isspace() holds): the ASCII ones, U+000B, U+001C..U+001F, U+0085,
\* U+00A0, U+1680, and the separators from U+2000 on, which a string of this
\* module cannot hold and which are written by code point
Whitespace ==
    {" ", "\t", "\n", "\r", "\f", "", "", "", "", "", "", " ", " ",
     "U+2000", "U+2001", "U+2002", "U+2003", "U+2004", "U+2005", "U+2006", "U+2007",
     "U+2008", "U+2009", "U+200A", "U+2028", "U+2029", "U+202F", "U+205F", "U+3000"}

\* ' '.join(s.split()): whitespace runs become one space, the ends are trimmed
RECURSIVE normalize_ws(_, _)
normalize_ws(s, pending) ==
    IF s = <<>> THEN <<>>
    ELSE IF s[1] \in Whitespace THEN normalize_ws(Tail(s), TRUE)
    ELSE (IF pending THEN <<" ">> ELSE <<>>) \o <<s[1]>> \o normalize_ws(Tail(s), FALSE)

join_split(s) ==
    LET lead == CHOOSE k \in 0..Len(s) :
                    /\ \A i \in 1..k : s[i] \in Whitespace
                    /\ (k < Len(s) => s[k + 1] \notin Whitespace)
    IN  normalize_ws(SubSeq(s, lead + 1, Len(s)), FALSE)

\* one pass of the loop over the parameter list: the dict appended, None
\* when the element is skipped, or the exception of str(default)
extract_param(param_node) ==
    IF param_node.node = "Call" /\ param_node.id = "ScriptParam" /\ Len(param_node.elts) >= 2
    THEN LET pargs == param_node.elts
             param_type == IF IsDataTypeTag(pargs[1]) THEN str_lower(pargs[1].attr) ELSE <<>>
             param_name == IF pargs[2].node = "Constant" THEN pargs[2].value ELSE py_None
             has_literal ==
                 Len(pargs) >= 3 /\ pargs[3].node = "Constant" /\ pargs[3].value.ty # "None"
             default_value == IF has_literal THEN to_str(pargs[3].value) ELSE <<>>
         IN  IF has_literal /\ str_raises(pargs[3].value)
             THEN Raises
             ELSE IF param_type # <<>> /\ truthy(param_name)
                  THEN Extracted([type |-> param_type, name |-> param_name,
                                  has_defaultValue |-> default_value # <<>>,
                                  defaultValue |-> default_value])
                  ELSE ReturnsNone
    ELSE ReturnsNone

\* the loop over the parameter list: the list of dicts, or the exception of
\* the first pass that raises
RECURSIVE extract_params(_)
extract_params(elts) ==
    IF elts = <<>> THEN Extracted(<<>>)
    ELSE LET first == extract_param(elts[1])
             rest  == extract_params(Tail(elts))
         IN  IF first.status = "raise" \/ rest.status = "raise"
             THEN Raises
             ELSE Extracted((IF first.status = "dict" THEN <<first.rec>> ELSE <<>>)
                            \o rest.rec)

DescMinLen == 10

extract_script_function(node) ==
    IF node.node = "Call" /\ node.id = "ScriptFunction" /\ Len(node.elts) >= 3
    THEN LET args == node.elts
             return_type == IF IsDataTypeTag(args[1]) THEN str_lower(args[1].attr) ELSE <<>>
             name == IF args[2].node = "Constant" THEN args[2].value ELSE py_None
             parameters == IF args[3].node = "List" THEN extract_params(args[3].elts)
                           ELSE Extracted(<<>>)
             default_desc == IF truthy(name) THEN to_str(name) \o <<" ","f","u","n","c","t","i","o","n">> ELSE <<"f","u","n","c","t","i","o","n">>
             description ==
                 IF Len(args) >= 4 /\ args[4].node = "Constant" /\ args[4].value.ty = "str"
                    /\ Len(args[4].value.s) > DescMinLen
                 THEN join_split(str_replace(str_replace(args[4].value.s, <<"\\","r","\\","n">>, <<" ">>),
                                             <<"\r","\n">>, <<" ">>))
                 ELSE default_desc
         IN  IF parameters.status = "raise"
             THEN Raises
             ELSE IF truthy(name) /\ str_raises(name)
             THEN \* the f-string of the default description
                  Raises
             ELSE IF return_type # <<>> /\ truthy(name)
             THEN \* infer_category_from_function_name(name) calls name.lower
                  IF name.ty = "str"
                  THEN Extracted([returnType |-> return_type, name |-> name.s,
                                  parameters |-> parameters.rec, description |-> description,
                                  category |-> infer_category_from_function_name(name.s)])
                  ELSE Raises
             ELSE ReturnsNone
    ELSE ReturnsNone

(***************************************************************************)
(* generate_description                                                    *)
(***************************************************************************)
descriptions ==
    { <<<<"T","R","U","E">>, <<"B","o","o","l","e","a","n"," ","t","r","u","e"," ","v","a","l","u","e">>>>,
      <<<<"F","A","L","S","E">>, <<"B","o","o","l","e","a","n"," ","f","a","l","s","e"," ","v","a","l","u","e">>>>,
      <<<<"P","I">>, <<"M","a","t","h","e","m","a","t","i","c","a","l"," ","c","o","n","s","t","a","n","t"," ","π">>>>,
      <<<<"P","l","a","n","e","t">>, <<"P","l","a","n","e","t"," ","i","d","e","n","t","i","f","i","e","r"," ","c","o","n","s","t","a","n","t">>>>,
      <<<<"D","a","m","a","g","e">>, <<"D","a","m","a","g","e"," ","t","y","p","e"," ","c","o","n","s","t","a","n","t">>>>,
      <<<<"D","a","m","a","g","e"," ","T","y","p","e">>, <<"D","a","m","a","g","e"," ","t","y","p","e"," ","c","o","n","s","t","a","n","t">>>>,
      <<<<"A","b","i","l","i","t","y">>, <<"A","b","i","l","i","t","y"," ","s","c","o","r","e"," ","c","o","n","s","t","a","n","t">>>>,
      <<<<"S","k","i","l","l">>, <<"S","k","i","l","l"," ","i","d","e","n","t","i","f","i","e","r"," ","c","o","n","s","t","a","n","t">>>>,
      <<<<"F","e","a","t">>, <<"F","e","a","t"," ","i","d","e","n","t","i","f","i","e","r"," ","c","o","n","s","t","a","n","t">>>>,
      <<<<"A","n","i","m","a","t","i","o","n">>, <<"A","n","i","m","a","t","i","o","n"," ","c","o","n","s","t","a","n","t">>>>,
      <<<<"B","a","s","e"," ","I","t","e","m">>, <<"B","a","s","e"," ","i","t","e","m"," ","t","y","p","e"," ","c","o","n","s","t","a","n","t">>>>,
      <<<<"I","n","v","e","n","t","o","r","y">>, <<"I","n","v","e","n","t","o","r","y"," ","s","l","o","t"," ","c","o","n","s","t","a","n","t">>>>,
      <<<<"I","n","v","e","n","t","o","r","y"," ","S","l","o","t">>, <<"I","n","v","e","n","t","o","r","y"," ","s","l","o","t"," ","c","o","n","s","t","a","n","t">>>>,
      <<<<"O","b","j","e","c","t"," ","T","y","p","e">>, <<"O","b","j","e","c","t"," ","t","y","p","e"," ","c","o","n","s","t","a","n","t">>>>,
      <<<<"R","a","c","e">>, <<"R","a","c","i","a","l"," ","t","y","p","e"," ","c","o","n","s","t","a","n","t">>>>,
      <<<<"G","e","n","d","e","r">>, <<"G","e","n","d","e","r"," ","c","o","n","s","t","a","n","t">>>>,
      <<<<"S","a","v","i","n","g"," ","T","h","r","o","w">>, <<"S","a","v","i","n","g"," ","t","h","r","o","w"," ","c","o","n","s","t","a","n","t">>>>,
      <<<<"A","l","i","g","n","m","e","n","t">>, <<"A","l","i","g","n","m","e","n","t"," ","c","o","n","s","t","a","n","t">>>>,
      <<<<"D","u","r","a","t","i","o","n">>, <<"D","u","r","a","t","i","o","n"," ","t","y","p","e"," ","c","o","n","s","t","a","n","t">>>>,
      <<<<"D","i","r","e","c","t","i","o","n">>, <<"D","i","r","e","c","t","i","o","n"," ","c","o","n","s","t","a","n","t"," ","i","n"," ","d","e","g","r","e","e","s">>>>,
      <<<<"F","o","r","c","e"," ","P","o","w","e","r">>, <<"F","o","r","c","e"," ","p","o","w","e","r"," ","i","d","e","n","t","i","f","i","e","r">>>>,
      <<<<"V","f","x">>, <<"V","i","s","u","a","l"," ","e","f","f","e","c","t"," ","c","o","n","s","t","a","n","t">>>>,
      <<<<"I","t","e","m"," ","P","r","o","p","e","r","t","y">>, <<"I","t","e","m"," ","p","r","o","p","e","r","t","y"," ","c","o","n","s","t","a","n","t">>>>,
      <<<<"C","o","m","b","a","t">>, <<"C","o","m","b","a","t","-","r","e","l","a","t","e","d"," ","c","o","n","s","t","a","n","t">>>>,
      <<<<"N","p","c">>, <<"N","P","C"," ","i","d","e","n","t","i","f","i","e","r"," ","c","o","n","s","t","a","n","t">>>>,
      <<<<"P","a","r","t","y">>, <<"P","a","r","t","y"," ","m","a","n","a","g","e","m","e","n","t"," ","c","o","n","s","t","a","n","t">>>>,
      <<<<"C","a","m","e","r","a">>, <<"C","a","m","e","r","a"," ","m","o","d","e"," ","c","o","n","s","t","a","n","t">>>>,
      <<<<"D","i","f","f","i","c","u","l","t","y">>, <<"G","a","m","e"," ","d","i","f","f","i","c","u","l","t","y"," ","c","o","n","s","t","a","n","t">>>>,
      <<<<"E","n","c","o","u","n","t","e","r">>, <<"E","n","c","o","u","n","t","e","r"," ","c","o","n","s","t","a","n","t">>>>,
      <<<<"T","r","a","p">>, <<"T","r","a","p"," ","t","y","p","e"," ","c","o","n","s","t","a","n","t">>>>,
      <<<<"C","r","e","a","t","u","r","e">>, <<"C","r","e","a","t","u","r","e"," ","s","i","z","e"," ","c","o","n","s","t","a","n","t">>>>,
      <<<<"E","f","f","e","c","t">>, <<"E","f","f","e","c","t"," ","t","y","p","e"," ","c","o","n","s","t","a","n","t">>>>,
      <<<<"C","o","n","v","e","r","s","a","t","i","o","n">>, <<"C","o","n","v","e","r","s","a","t","i","o","n"," ","t","y","p","e"," ","c","o","n","s","t","a","n","t">>>>,
      <<<<"D","i","s","g","u","i","s","e">>, <<"D","i","s","g","u","i","s","e"," ","t","y","p","e"," ","c","o","n","s","t","a","n","t">>>>,
      <<<<"I","m","m","u","n","i","t","y">>, <<"I","m","m","u","n","i","t","y"," ","t","y","p","e"," ","c","o","n","s","t","a","n","t">>>>,
      <<<<"A","o","e">>, <<"A","r","e","a"," ","o","f"," ","e","f","f","e","c","t"," ","c","o","n","s","t","a","n","t">>>>,
      <<<<"P","o","l","y","m","o","r","p","h">>, <<"P","o","l","y","m","o","r","p","h"," ","t","y","p","e"," ","c","o","n","s","t","a","n","t">>>>,
      <<<<"C","o","m","m","u","n","i","c","a","t","i","o","n">>, <<"C","o","m","m","u","n","i","c","a","t","i","o","n"," ","v","o","l","u","m","e"," ","c","o","n","s","t","a","n","t">>>>,
      <<<<"A","t","t","i","t","u","d","e">>, <<"A","t","t","i","t","u","d","e"," ","c","o","n","s","t","a","n","t">>>> }

\* descriptions.get(key, default)
descriptions_get(key, default) ==
    IF \E e \in descriptions : e[1] = key
    THEN (CHOOSE e \in descriptions : e[1] = key)[2]
    ELSE default

generate_description(name, category, fallback) ==
    descriptions_get(name, descriptions_get(category, fallback))

(***************************************************************************)
(* extract_definitions_from_file: the group identifiers, the order in      *)
(* which ast.walk meets the assignment statements, and the handling of one *)
(* element of a list bound to a group identifier.                          *)
(***************************************************************************)
target_vars == <<<<"K","O","T","O","R","_","C","O","N","S","T","A","N","T","S">>, <<"T","S","L","_","C","O","N","S","T","A","N","T","S">>, <<"K","O","T","O","R","_","F","U","N","C","T","I","O","N","S">>, <<"T","S","L","_","F","U","N","C","T","I","O","N","S">>>>

TargetSet == { target_vars[i] : i \in 1..Len(target_vars) }

\* definitions = {var: [] for var in target_vars}
EmptyDefinitions == [v \in TargetSet |-> <<>>]

\* an ast.Assign with the single target ast.Name(var_name) and the value
\* ast.List(elts), depth levels of the syntax tree below the statements of
\* the module (0: a statement of the module, 1: a statement of the body of
\* an if, def, class, ... of the module)
Assign(depth, var_name, elts) == [depth |-> depth, var_name |-> var_name, elts |-> elts]

\* the statements of t at one level of the tree, as indices in source order
AssignsAtDepth(t, depth) ==
    LET AtDepth(i) == t[i].depth = depth
    IN  SelectSeq([i \in 1..Len(t) |-> i], AtDepth)

\* ast.walk is breadth-first (a deque, children appended, nodes popped from
\* the left): the statements of a higher level come first, those of one
\* level in source order
RECURSIVE ast_walk_from(_, _)
ast_walk_from(t, depth) ==
    IF depth > MaxDepth THEN <<>>
    ELSE AssignsAtDepth(t, depth) \o ast_walk_from(t, depth + 1)

ast_walk(t) == ast_walk_from(t, 0)

\* for node in ast.walk(tree): for item in node.value.elts: the elements in
\* the order the two loops meet them, each as (statement, index in its list)
RECURSIVE items_of(_, _)
items_of(t, order) ==
    IF order = <<>> THEN <<>>
    ELSE [j \in 1..Len(t[order[1]].elts) |-> [stmt |-> order[1], elt |-> j]]
         \o items_of(t, Tail(order))

visit_order(t) == items_of(t, ast_walk(t))

\* the extractor the element of a list bound to var_name is passed to
extract_item(var_name, item) ==
    IF str_contains(var_name, <<"C","O","N","S","T","A","N","T","S">>) THEN extract_script_constant(item)
    ELSE IF str_contains(var_name, <<"F","U","N","C","T","I","O","N","S">>) THEN extract_script_function(item)
    ELSE ReturnsNone

(***************************************************************************)
(* generate_typescript_definitions: the text written between the quotes    *)
(* (or bare, for an unquoted value) of every field of every emitted record,*)
(* per group, in emission order.                                           *)
(***************************************************************************)
\* mutant: the generic fallback of the KOTOR groups used for every group
group_fallback_always_kotor(var_name, kind) == <<"k","o","t","o","r"," ">> \o kind

group_fallback(var_name, kind) ==
    IF str_contains(var_name, <<"K","O","T","O","R">>) THEN <<"k","o","t","o","r"," ">> \o kind ELSE <<"t","s","l"," ">> \o kind

emit_constant(const, fallback) ==
    LET desc == generate_description(const.name, const.category, fallback)
        quoted == const.value.ty = "str" /\ const.value.s # <<"M","a","t","h",".","P","I">>
    IN  [name |-> const.name, type |-> const.type,
         value |-> [quoted |-> quoted, text |-> to_str(const.value)],
         description |-> desc, category |-> const.category]

emit_param(p) ==
    [name |-> to_str(p.name), type |-> p.type,
     has_defaultValue |-> p.has_defaultValue /\ p.defaultValue # <<>>,
     defaultValue |-> IF p.has_defaultValue /\ p.defaultValue # <<>>
                      THEN p.defaultValue ELSE <<>>]

emit_function(func, fallback) ==
    LET table_desc == generate_description(func.name, func.category, fallback)
        desc == IF func.description # <<>> /\ Len(func.description) > Len(fallback)
                THEN str_replace(func.description, <<"\"">>, <<"\\","\"">>)
                ELSE table_desc
    IN  [name |-> func.name, returnType |-> func.returnType,
         parameters |-> [i \in 1..Len(func.parameters) |-> emit_param(func.parameters[i])],
         description |-> desc, category |-> func.category]

\* generate_typescript_definitions raises ValueError: the f-string of a
\* record formats a constant's value or a parameter's name that str() rejects
generate_raises(defs) ==
    \E v \in TargetSet : \E i \in 1..Len(defs[v]) :
        IF str_contains(v, <<"C","O","N","S","T","A","N","T","S">>)
        THEN str_raises(defs[v][i].value)
        ELSE \E j \in 1..Len(defs[v][i].parameters) :
                 str_raises(defs[v][i].parameters[j].name)

\* the text generate_typescript_definitions returns when it does not raise
generate_typescript_definitions(defs) ==
    [v \in TargetSet |->
        IF str_contains(v, <<"C","O","N","S","T","A","N","T","S">>)
        THEN [i \in 1..Len(defs[v]) |-> emit_constant(defs[v][i], group_fallback(v, <<"c","o","n","s","t","a","n","t">>))]
        ELSE [i \in 1..Len(defs[v]) |-> emit_function(defs[v][i], group_fallback(v, <<"f","u","n","c","t","i","o","n">>))]]

(***************************************************************************)
(* The list elements the walk can meet, per kind of group.                 *)
(***************************************************************************)
ConstantItems ==
    << Call("ScriptConstant", <<Attribute("DataType", <<"I","N","T">>), Constant(py_str(<<"T","R","U","E">>)), Constant(py_int(1))>>),
      Call("ScriptConstant", <<Attribute("DataType", <<"S","T","R","I","N","G">>), Constant(py_str(<<"A","_","B">>)), Constant(py_str(<<"a","\"","b">>))>>),
      Call("ScriptConstant", <<Attribute("DataType", <<"F","L","O","A","T">>), Constant(py_str(<<"P","I">>)), Attribute("math", <<"p","i">>)>>),
      Call("ScriptConstant", <<Attribute("DataType", <<"S","T","R","I","N","G">>), Constant(py_str(<<"X">>)), Constant(py_str(<<"M","a","t","h",".","P","I">>))>>),
      Call("ScriptConstant", <<Attribute("DataType", <<"I","N","T">>), Constant(py_str(<<"Y","_","Z">>))>>),
      Call("ScriptConstant", <<Attribute("DataType", <<"I","N","T">>), Constant(py_str(<<"N","_","V">>)), Constant(py_None)>>),
      Call("ScriptConstant", <<Attribute("DataType", <<"I","N","T">>), Constant(py_int(5)), Constant(py_int(1))>>),
      Call("ScriptConstant", <<Attribute("DataType", <<"I","N","T">>), Constant(py_str(<<"B","I","G">>)), Constant(py_long)>>),
      Call("ScriptFunction", <<Attribute("DataType", <<"V","O","I","D">>), Constant(py_str(<<"F","o","o">>)), List(<<>>)>>) >>

FunctionItems ==
    << Call("ScriptFunction", <<Attribute("DataType", <<"V","O","I","D">>), Constant(py_str(<<"A","c","t","i","o","n","D","o","N","o","t","h","i","n","g">>)), List(<<>>)>>),
      Call("ScriptFunction", <<Attribute("DataType", <<"I","N","T">>), Constant(py_str(<<"F","o","o">>)),
            List(<<Call("ScriptParam", <<Attribute("DataType", <<"I","N","T">>), Constant(py_str(<<"n">>)), Constant(py_int(0))>>),
                   Call("ScriptParam", <<Attribute("DataType", <<"I","N","T">>)>>),
                   Call("ScriptParam", <<Attribute("DataType", <<"S","T","R","I","N","G">>), Constant(py_str(<<"s","\"">>)), Constant(py_str(<<>>))>>)>>),
            Constant(py_str(<<"s","h","o","r","t">>))>>),
      Call("ScriptFunction", <<Attribute("DataType", <<"V","O","I","D">>), Constant(py_str(<<"A","t","t","a","c","k">>)), List(<<>>),
            Constant(py_str(<<"a"," ","\"","l","o","n","g","\""," ","","d","e","s","c","r","i","p","t","i","o","n","\\","r","\\","n","h","e","r","e","">>))>>),
      Call("ScriptFunction", <<Attribute("DataType", <<"I","N","T">>), Constant(py_str(<<"I","s","N","P","C">>)), List(<<>>)>>),
      Call("ScriptFunction", <<Attribute("DataType", <<"V","O","I","D">>), Constant(py_str(<<"S","a","y","\"","H","i","\"","N","o","w">>)), OtherExpr>>),
      Call("ScriptFunction", <<Attribute("DataType", <<"V","O","I","D">>), Constant(py_str(<<"P","a","d">>)),
            List(<<Call("ScriptParam", <<Attribute("DataType", <<"I","N","T">>), Constant(py_str(<<"k">>))>>),
                   Call("ScriptParam", <<Attribute("DataType", <<"I","N","T">>), Constant(py_str(<<"m">>)), Constant(py_None)>>)>>),
            Constant(py_str(<<" "," ","p","a","d","d","e","d"," "," "," ">>))>>),
      Call("ScriptFunction", <<Attribute("DataType", <<"V","O","I","D">>), Constant(py_str(<<"B","l","a","n","k">>)), List(<<>>),
            Constant(py_str(<<" ","\t"," "," "," "," "," "," "," "," "," ">>))>>),
      Call("ScriptFunction", <<Attribute("DataType", <<"V","O","I","D">>), Constant(py_str(<<"N","o","P","a","r","a","m","s">>))>>),
      Call("ScriptFunction", <<Attribute("DataType", <<"I","N","T">>), Constant(py_int(5)), List(<<>>)>>),
      Call("ScriptFunction", <<Attribute("DataType", <<"I","N","T">>), Constant(py_str(<<"B","i","g">>)),
            List(<<Call("ScriptParam", <<OtherExpr, Constant(py_str(<<"n">>)), Constant(py_long)>>)>>)>>),
      Call("ScriptFunction", <<OtherExpr, Constant(py_long), List(<<>>)>>),
      Call("ScriptFunction", <<Attribute("DataType", <<"I","N","T">>), Constant(py_str(<<"L","o","n","g","P","a","r","a","m">>)),
            List(<<Call("ScriptParam", <<Attribute("DataType", <<"I","N","T">>), Constant(py_long)>>)>>)>>),
      Call("ScriptConstant", <<Attribute("DataType", <<"I","N","T">>), Constant(py_str(<<"T","R","U","E">>)), Constant(py_int(1))>>) >>

ItemsFor(var_name) ==
    IF str_contains(var_name, <<"C","O","N","S","T","A","N","T","S">>) THEN ConstantItems ELSE FunctionItems

(***************************************************************************)
(* The source files: the assignment statements binding a list to a group   *)
(* identifier, in source order.                                            *)
(***************************************************************************)
\* a statement in outline: its depth, the place of its target in
\* target_vars and the places of its elements in the pool of that group
StatementOutlines(n) ==
    UNION { { [depth |-> depth, target |-> g, picks |-> picks] :
                  depth \in 0..MaxDepth,
                  picks \in [1..n -> 1..Len(ItemsFor(target_vars[g]))] } :
            g \in 1..Len(target_vars) }

RECURSIVE Sum(_)
Sum(sizes) == IF sizes = <<>> THEN 0 ELSE sizes[1] + Sum(Tail(sizes))

\* the list lengths of the statements of one file
Sizes ==
    { sizes \in UNION { [1..k -> 1..MaxItems] : k \in 0..MaxStatements } :
          Sum(sizes) <= MaxItems }

RECURSIVE OutlinesOfSizes(_)
OutlinesOfSizes(sizes) ==
    IF sizes = <<>> THEN {<<>>}
    ELSE { <<stmt>> \o rest : stmt \in StatementOutlines(sizes[1]),
                              rest \in OutlinesOfSizes(Tail(sizes)) }

\* the statements of the file with the outline o, in source order
TreeOf(o) ==
    [i \in 1..Len(o) |->
        LET var_name == target_vars[o[i].target]
        IN  Assign(o[i].depth, var_name,
                   [j \in 1..Len(o[i].picks) |-> ItemsFor(var_name)[o[i].picks[j]]])]

(***************************************************************************)
(* main                                                                    *)
(***************************************************************************)
NoContent == [v \in TargetSet |-> <<>>]

PipelineIdle ==
    /\ pc = "start"
    /\ input_exists \in BOOLEAN
    /\ tree = <<>>
    /\ walk = <<>>
    /\ definitions = EmptyDefinitions
    /\ ts_content = NoContent
    /\ out_file = [status |-> "old", content |-> NoContent]
    /\ exit_code = -1
    /\ failure = "none"

Init ==
    /\ PipelineIdle
    /\ cat_kind = "none"
    /\ cat_name = <<>>
    /\ cat_result = <<>>

\* the exit status the interpreter substitutes when the buffered standard
\* output, which holds the messages of print, cannot be flushed at exit
FlushFailedStatus == 120

\* the status the process ends with when main asks for status
ExitStatuses(status) == {status, FlushFailedStatus}

\* sys.exit(1), from the missing-input check or from the except clause; also
\* the exit by traceback when print itself raises outside the try block or
\* inside the except clause
Exit1(kind) ==
    /\ pc' = "exited"
    /\ exit_code' \in ExitStatuses(1)
    /\ failure' = kind

\* if not scriptdefs_path.exists(): print; sys.exit(1)
CheckInput ==
    /\ pc = "start"
    /\ IF input_exists
       THEN pc' = "parse" /\ UNCHANGED <<exit_code, failure>>
       ELSE Exit1("missing")
    /\ UNCHANGED <<input_exists, tree, walk, definitions, ts_content, out_file>>
    /\ UNCHANGED cat_vars

\* the input exists and print("Extracting definitions ...") raises OSError
\* (standard output not writable); the call is outside the try block
BannerPrintFails ==
    /\ pc = "start"
    /\ input_exists
    /\ Exit1("banner")
    /\ UNCHANGED <<input_exists, tree, walk, definitions, ts_content, out_file>>
    /\ UNCHANGED cat_vars

\* open, read and ast.parse succeed; definitions is initialised
ParseOk ==
    /\ pc = "parse"
    /\ pc' = "walk"
    /\ \E sizes \in Sizes : \E o \in OutlinesOfSizes(sizes) : tree' = TreeOf(o)
    /\ definitions' = EmptyDefinitions
    /\ UNCHANGED <<input_exists, walk, ts_content, out_file, exit_code, failure>>
    /\ UNCHANGED cat_vars

\* open, read or ast.parse raises (unreadable file, SyntaxError)
ParseFails ==
    /\ pc = "parse"
    /\ Exit1("parse")
    /\ UNCHANGED <<input_exists, tree, walk, definitions, ts_content, out_file>>
    /\ UNCHANGED cat_vars

\* the walk is over: every element of every list has been visited
WalkOver == Len(walk) = Len(visit_order(tree))

\* the loops reach the next element of a list bound to a group identifier
ExtractItem ==
    /\ pc = "walk"
    /\ ~WalkOver
    /\ LET at == visit_order(tree)[Len(walk) + 1]
           var_name == tree[at.stmt].var_name
           item == tree[at.stmt].elts[at.elt]
           r == extract_item(var_name, item)
       IN  /\ walk' = Append(walk, [var_name |-> var_name, item |-> item,
                                    stmt |-> at.stmt, elt |-> at.elt,
                                    result |-> r.status])
           /\ IF r.status = "raise"
              THEN Exit1("extract") /\ UNCHANGED definitions
              ELSE /\ definitions' =
                         IF r.status = "dict"
                         THEN [definitions EXCEPT ![var_name] = Append(@, r.rec)]
                         ELSE definitions
                   /\ UNCHANGED <<pc, exit_code, failure>>
    /\ UNCHANGED <<input_exists, tree, ts_content, out_file>>
    /\ UNCHANGED cat_vars

\* the walk is over and extract_definitions_from_file returns; main prints
\* the summary and calls generate_typescript_definitions
Generate ==
    /\ pc = "walk"
    /\ WalkOver
    /\ ~generate_raises(definitions)
    /\ pc' = "open"
    /\ ts_content' = generate_typescript_definitions(definitions)
    /\ UNCHANGED <<input_exists, tree, walk, definitions, out_file, exit_code, failure>>
    /\ UNCHANGED cat_vars

\* extract_definitions_from_file has returned and a print of the summary
\* raises OSError inside the try block
SummaryPrintFails ==
    /\ pc = "walk"
    /\ WalkOver
    /\ Exit1("summary")
    /\ UNCHANGED <<input_exists, tree, walk, definitions, ts_content, out_file>>
    /\ UNCHANGED cat_vars

\* generate_typescript_definitions raises inside the try block: ValueError
\* when generate_raises holds, and MemoryError whatever the definitions are
GenerateFails ==
    /\ pc = "walk"
    /\ WalkOver
    /\ Exit1("serialize")
    /\ UNCHANGED <<input_exists, tree, walk, definitions, ts_content, out_file>>
    /\ UNCHANGED cat_vars

\* open(output_path, 'w') succeeds and truncates the file
OpenOutput ==
    /\ pc = "open"
    /\ pc' = "write"
    /\ out_file' = [status |-> "truncated", content |-> NoContent]
    /\ UNCHANGED <<input_exists, tree, walk, definitions, ts_content, exit_code, failure>>
    /\ UNCHANGED cat_vars

\* open(output_path, 'w') raises OSError (no such directory, no permission)
OpenFails ==
    /\ pc = "open"
    /\ Exit1("open")
    /\ UNCHANGED <<input_exists, tree, walk, definitions, ts_content, out_file>>
    /\ UNCHANGED cat_vars

\* f.write(ts_content) succeeds and the file is closed
WriteOutput ==
    /\ pc = "write"
    /\ pc' = "written"
    /\ out_file' = [status |-> "written", content |-> ts_content]
    /\ UNCHANGED <<input_exists, tree, walk, definitions, ts_content, exit_code, failure>>
    /\ UNCHANGED cat_vars

\* the records wholly inside a prefix of the generated text: the groups
\* before the g-th in full, the first k records of the g-th, none after
PrefixContent(ts, g, k) ==
    [v \in TargetSet |->
        LET pos == CHOOSE j \in 1..Len(target_vars) : target_vars[j] = v
        IN  IF pos < g THEN ts[v]
            ELSE IF pos = g THEN SubSeq(ts[v], 1, k)
            ELSE <<>>]

\* f.write or the close raises (disk full, file size limit, text not
\* encodable as UTF-8): the file keeps the part of the text already flushed
WriteFails ==
    /\ pc = "write"
    /\ Exit1("write")
    /\ \E g \in 1..Len(target_vars) : \E k \in 0..Len(ts_content[target_vars[g]]) :
          out_file' = [status |-> "partial", content |-> PrefixContent(ts_content, g, k)]
    /\ UNCHANGED <<input_exists, tree, walk, definitions, ts_content>>
    /\ UNCHANGED cat_vars

\* print("Generated TypeScript definitions ...") succeeds and main returns
ReportDone ==
    /\ pc = "written"
    /\ pc' = "exited"
    /\ exit_code' \in ExitStatuses(0)
    /\ UNCHANGED <<input_exists, tree, walk, definitions, ts_content, out_file, failure>>
    /\ UNCHANGED cat_vars

\* print("Generated TypeScript definitions ...") raises OSError inside the
\* try block, after the file has been written and closed
ReportFails ==
    /\ pc = "written"
    /\ Exit1("report")
    /\ UNCHANGED <<input_exists, tree, walk, definitions, ts_content, out_file>>
    /\ UNCHANGED cat_vars

Next ==
    \/ CheckInput
    \/ BannerPrintFails
    \/ ParseOk
    \/ ParseFails
    \/ ExtractItem
    \/ Generate
    \/ GenerateFails
    \/ SummaryPrintFails
    \/ OpenOutput
    \/ OpenFails
    \/ WriteOutput
    \/ WriteFails
    \/ ReportDone
    \/ ReportFails

Spec == Init /\ [][Next]_vars

InitCat ==
    /\ PipelineIdle
    /\ cat_kind = "none"
    /\ cat_name = <<>>
    /\ cat_result = <<>>

NextCat == CategorizeConstant \/ CategorizeFunction

SpecCat == InitCat /\ [][NextCat]_vars

(***************************************************************************)
(* Vocabulary of the properties: the shapes of section 4.1, the source     *)
(* elements a group's records come from, and the states in which the       *)
(* emitter has run.                                                        *)
(***************************************************************************)
IsConstantsGroup(v) == v \in {<<"K","O","T","O","R","_","C","O","N","S","T","A","N","T","S">>, <<"T","S","L","_","C","O","N","S","T","A","N","T","S">>}
IsFunctionsGroup(v) == v \in {<<"K","O","T","O","R","_","F","U","N","C","T","I","O","N","S">>, <<"T","S","L","_","F","U","N","C","T","I","O","N","S">>}

\* a usable name: a non-empty string literal
UsableName(a) == a.node = "Constant" /\ a.value.ty = "str" /\ a.value.s # <<>>

IsMathPi(a) == a.node = "Attribute" /\ a.id = "math" /\ a.attr = <<"p","i">>

\* a usable value: a literal other than None, or math.pi
UsableValue(a) == (a.node = "Constant" /\ a.value.ty # "None") \/ IsMathPi(a)

ConstantShape(item) ==
    /\ item.node = "Call" /\ item.id = "ScriptConstant" /\ Len(item.elts) >= 3
    /\ IsDataTypeTag(item.elts[1])
    /\ UsableName(item.elts[2])
    /\ UsableValue(item.elts[3])

FunctionShape(item) ==
    /\ item.node = "Call" /\ item.id = "ScriptFunction" /\ Len(item.elts) >= 3
    /\ IsDataTypeTag(item.elts[1])
    /\ UsableName(item.elts[2])
    /\ item.elts[3].node = "List"

FullyMatches(v, item) ==
    IF IsConstantsGroup(v) THEN ConstantShape(item) ELSE FunctionShape(item)

\* the elements of the lists bound to v, in source order: statement after
\* statement as the file has them, each list first to last
RECURSIVE SourceElements(_, _)
SourceElements(v, t) ==
    IF t = <<>> THEN <<>>
    ELSE (IF t[1].var_name = v THEN t[1].elts ELSE <<>>) \o SourceElements(v, Tail(t))

\* those of them that match their shape, in source order
SourceOf(v) ==
    LET Matching(item) == FullyMatches(v, item)
    IN  SelectSeq(SourceElements(v, tree), Matching)

\* the literal name of a source element
SourceName(item) == item.elts[2].value.s

\* the visited elements of the lists bound to v that match their shape
MatchingVisited(v) ==
    LET Matching(e) == e.var_name = v /\ FullyMatches(v, e.item)
    IN  SelectSeq(walk, Matching)

\* the elements the records of definitions[v] were made from: the i-th
\* record of the group comes from the i-th of them
Origin(v) ==
    LET Appended(e) == e.var_name = v /\ e.result = "dict"
    IN  SelectSeq(walk, Appended)

\* generate_typescript_definitions has returned
Generated ==
    \/ pc \in {"open", "write", "written"}
    \/ pc = "exited" /\ failure \in {"none", "open", "write", "report"}

\* a double quote that no backslash precedes
HasUnescapedQuote(s) ==
    \E i \in 1..Len(s) : s[i] = "\"" /\ (i = 1 \/ s[i - 1] # "\\")

TypeOK == pc \in {"start", "parse", "walk", "open", "write", "written", "exited"}

(***************************************************************************)
(* C1. Shape-gating: every element of a list bound to a group identifier   *)
(* yields exactly one record when it fully matches its shape and zero      *)
(* records (without aborting the list) when it lacks a usable type tag,    *)
(* name or value; every record has all its required fields populated.      *)
(***************************************************************************)
ShapeGating ==
    /\ \A i \in 1..Len(walk) :
          extract_item(walk[i].var_name, walk[i].item).status =
              IF FullyMatches(walk[i].var_name, walk[i].item) THEN "dict" ELSE "None"
    /\ \A v \in TargetSet :
          /\ Len(definitions[v]) = Len(MatchingVisited(v))
          /\ \A i \in 1..Len(definitions[v]) :
                /\ definitions[v][i].name # <<>>
                /\ IF IsConstantsGroup(v)
                   THEN definitions[v][i].type # <<>> /\ definitions[v][i].value.ty # "None"
                   ELSE definitions[v][i].returnType # <<>>

(***************************************************************************)
(* C2. Order preservation: for each group, the records emitted by          *)
(* generate_typescript_definitions are exactly the matching elements of    *)
(* the source lists in source order: the unmatched elements removed,       *)
(* nothing reordered, duplicated or sorted.                                *)
(***************************************************************************)
OrderPreserved ==
    Generated =>
        \A v \in TargetSet :
            /\ Len(ts_content[v]) = Len(SourceOf(v))
            /\ \A i \in 1..Len(ts_content[v]) :
                  ts_content[v][i].name = SourceName(SourceOf(v)[i])

(***************************************************************************)
(* C3. The extractor never raises on syntactically valid source, whatever  *)
(* kinds of literal appear as the arguments of the constructor calls.      *)
(***************************************************************************)
ExtractorNeverRaises == failure # "extract"

(***************************************************************************)
(* C4. The categorizers never return an empty label.                       *)
(***************************************************************************)
CategoryNonEmpty == cat_kind # "none" => cat_result # <<>>

(***************************************************************************)
(* C5. The function category is the label of the first predicate of the    *)
(* chain the lower-cased name satisfies: the seven keyword groups need a   *)
(* get/set/is/has prefix, the later predicates are tested whatever the     *)
(* prefix, and only a name satisfying no predicate is "General".           *)
(***************************************************************************)
ChainCategory(name) ==
    LET nl == str_lower(name)
    IN  IF HasCorePrefix(nl) /\ CoreCategory(nl) # <<>> THEN CoreCategory(nl)
        ELSE IF LaterCategory(nl) # <<>> THEN LaterCategory(nl)
        ELSE <<"G","e","n","e","r","a","l">>

FirstMatchInChain ==
    cat_kind = "function" => cat_result = ChainCategory(cat_name)

(***************************************************************************)
(* C6. The constant name FORCE_POWER_HEAL is categorized "Force Power".    *)
(***************************************************************************)
ForcePowerHeal ==
    (cat_kind = "constant" /\ cat_name = <<"F","O","R","C","E","_","P","O","W","E","R","_","H","E","A","L">>) => cat_result = <<"F","o","r","c","e"," ","P","o","w","e","r">>

(***************************************************************************)
(* C7. The description emitted for a function whose source call has no     *)
(* description argument, or one of at most 10 characters.                  *)
(***************************************************************************)
\* the source call has no description argument, or one of at most 10 characters
NoOrShortDescription(item) ==
    \/ Len(item.elts) < 4
    \/ item.elts[4].node # "Constant"
    \/ item.elts[4].value.ty # "str"
    \/ Len(item.elts[4].value.s) <= 10

Synthesized(name) == name \o <<" ","f","u","n","c","t","i","o","n">>

\* the description-table entries for a name and a category
TableEntries(name, category) ==
    { e[2] : e \in { d \in descriptions : d[1] = name \/ d[1] = category } }

GenericFallback(v) == IF v = <<"K","O","T","O","R","_","F","U","N","C","T","I","O","N","S">> THEN <<"k","o","t","o","r"," ","f","u","n","c","t","i","o","n">> ELSE <<"t","s","l"," ","f","u","n","c","t","i","o","n">>

\* as claimed: the synthesized text or a table entry, never another string
ShortDescriptionSynthesizedOrTable ==
    Generated =>
        \A v \in {<<"K","O","T","O","R","_","F","U","N","C","T","I","O","N","S">>, <<"T","S","L","_","F","U","N","C","T","I","O","N","S">>} :
            \A i \in 1..Len(ts_content[v]) :
                NoOrShortDescription(Origin(v)[i].item) =>
                    ts_content[v][i].description \in
                        {Synthesized(ts_content[v][i].name)}
                        \cup TableEntries(ts_content[v][i].name, ts_content[v][i].category)

\* C7 as amended: the synthesized text with its double quotes escaped, a
\* table entry for the name or the category, or the generic fallback of the
\* group ("kotor function" / "tsl function")
ShortDescriptionOrGenericFallback ==
    Generated =>
        \A v \in {<<"K","O","T","O","R","_","F","U","N","C","T","I","O","N","S">>, <<"T","S","L","_","F","U","N","C","T","I","O","N","S">>} :
            \A i \in 1..Len(ts_content[v]) :
                NoOrShortDescription(Origin(v)[i].item) =>
                    ts_content[v][i].description \in
                        {str_replace(Synthesized(ts_content[v][i].name), <<"\"">>, <<"\\","\"">>),
                         GenericFallback(v)}
                        \cup TableEntries(ts_content[v][i].name, ts_content[v][i].category)

GenericFallbackWitness ==
    /\ Generated
    /\ \E i \in 1..Len(ts_content[<<"T","S","L","_","F","U","N","C","T","I","O","N","S">>]) :
          /\ NoOrShortDescription(Origin(<<"T","S","L","_","F","U","N","C","T","I","O","N","S">>)[i].item)
          /\ ts_content[<<"T","S","L","_","F","U","N","C","T","I","O","N","S">>][i].description = <<"t","s","l"," ","f","u","n","c","t","i","o","n">>

(***************************************************************************)
(* C8. Every string field written into an emitted record has its embedded  *)
(* double quotes escaped.                                                  *)
(***************************************************************************)
AllQuotesEscaped ==
    Generated =>
        \A v \in TargetSet : \A i \in 1..Len(ts_content[v]) :
            LET e == ts_content[v][i]
            IN  /\ ~HasUnescapedQuote(e.name)
                /\ ~HasUnescapedQuote(e.description)
                /\ ~HasUnescapedQuote(e.category)
                /\ IsConstantsGroup(v) => (e.value.quoted => ~HasUnescapedQuote(e.value.text))
                /\ IsFunctionsGroup(v) =>
                      \A j \in 1..Len(e.parameters) :
                          /\ ~HasUnescapedQuote(e.parameters[j].name)
                          /\ ~HasUnescapedQuote(e.parameters[j].defaultValue)

(***************************************************************************)
(* C9. A constant's value is emitted as the bare token Math.PI exactly     *)
(* when its source value argument is math.pi; string-literal values are    *)
(* emitted in double quotes and numeric values unquoted.                   *)
(***************************************************************************)
SymbolicPiExactly ==
    Generated =>
        \A v \in {<<"K","O","T","O","R","_","C","O","N","S","T","A","N","T","S">>, <<"T","S","L","_","C","O","N","S","T","A","N","T","S">>} :
            \A i \in 1..Len(ts_content[v]) :
                LET arg == Origin(v)[i].item.elts[3]
                    out == ts_content[v][i].value
                IN  /\ (~out.quoted /\ out.text = <<"M","a","t","h",".","P","I">>) <=> IsMathPi(arg)
                    /\ (arg.node = "Constant" /\ arg.value.ty = "str") => out.quoted
                    /\ (arg.node = "Constant" /\ arg.value.ty = "int") => ~out.quoted

(***************************************************************************)
(* C10. A run that fails because the input is missing or because parsing,  *)
(* extraction or serialization raises ends with exit code 1 and leaves the *)
(* output file as it was; the output file is opened only after             *)
(* serialization has succeeded; only a run that wrote it exits with 0.     *)
(***************************************************************************)
FailureLeavesOutputUntouched ==
    /\ pc = "exited" /\ failure \in {"missing", "parse", "extract", "serialize"} =>
          /\ exit_code = 1
          /\ out_file = [status |-> "old", content |-> NoContent]
    /\ out_file.status # "old" =>
          Generated /\ ts_content = generate_typescript_definitions(definitions)
    /\ exit_code = 0 =>
          pc = "exited" /\ out_file = [status |-> "written", content |-> ts_content]

(***************************************************************************)
(* C11. A function's description argument replaces the synthesized default *)
(* only when it is a string literal whose length after trimming            *)
(* surrounding whitespace exceeds 10 characters; the stored description is *)
(* then the text with line-break sequences turned into spaces and          *)
(* whitespace runs collapsed; in every other case the record's description *)
(* remains "<name> function".                                              *)
(***************************************************************************)
\* s without its leading and trailing whitespace
str_strip(s) ==
    LET ink == { i \in 1..Len(s) : s[i] \notin Whitespace }
    IN  IF ink = {} THEN <<>>
        ELSE SubSeq(s, CHOOSE i \in ink : \A j \in ink : i <= j,
                       CHOOSE i \in ink : \A j \in ink : j <= i)

IsStringLiteral(a) == a.node = "Constant" /\ a.value.ty = "str"

HasDescriptionLiteral(item) == Len(item.elts) >= 4 /\ IsStringLiteral(item.elts[4])

\* the line-break sequences: the escape sequence \r\n as written in the text
\* (four characters) and a carriage return followed by a line feed
LineBreakSequences == <<<<"\\","r","\\","n">>, <<"\r","\n">>>>

\* the first position of s where a line-break sequence starts, 0 if none
FirstLineBreak(s) ==
    LET starts == { i \in 1..Len(s) :
                        \E k \in 1..Len(LineBreakSequences) :
                            str_startswith(SubSeq(s, i, Len(s)), LineBreakSequences[k]) }
    IN  IF starts = {} THEN 0 ELSE CHOOSE i \in starts : \A j \in starts : i <= j

\* s with every line-break sequence turned into one space
RECURSIVE LineBreaksToSpaces(_)
LineBreaksToSpaces(s) ==
    LET i == FirstLineBreak(s)
    IN  IF i = 0 THEN s
        ELSE LET brk == IF str_startswith(SubSeq(s, i, Len(s)), LineBreakSequences[1])
                        THEN LineBreakSequences[1] ELSE LineBreakSequences[2]
             IN  SubSeq(s, 1, i - 1) \o <<" ">>
                 \o LineBreaksToSpaces(SubSeq(s, i + Len(brk), Len(s)))

\* s, free of surrounding whitespace, with every whitespace run turned into
\* one space
RECURSIVE CollapseRuns(_)
CollapseRuns(s) ==
    IF s = <<>> THEN <<>>
    ELSE IF s[1] \notin Whitespace THEN <<s[1]>> \o CollapseRuns(Tail(s))
    ELSE IF Len(s) > 1 /\ s[2] \in Whitespace THEN CollapseRuns(Tail(s))
    ELSE <<" ">> \o CollapseRuns(Tail(s))

\* the description stored for a qualifying text: its line-break sequences
\* turned into spaces, its whitespace runs collapsed to one space each, and
\* no whitespace around it (the trimming of the length test)
Normalized(text) == CollapseRuns(str_strip(LineBreaksToSpaces(text)))

\* the argument qualifies when its trimmed length exceeds 10
QualifiesTrimmed(item) ==
    HasDescriptionLiteral(item) /\ Len(str_strip(item.elts[4].value.s)) > 10

DescriptionReplacedIfTrimmedLong ==
    \A v \in {<<"K","O","T","O","R","_","F","U","N","C","T","I","O","N","S">>, <<"T","S","L","_","F","U","N","C","T","I","O","N","S">>} :
        \A i \in 1..Len(definitions[v]) :
            LET item == Origin(v)[i].item
                stored == definitions[v][i].description
            IN  IF QualifiesTrimmed(item)
                THEN stored = Normalized(item.elts[4].value.s)
                ELSE stored = Synthesized(definitions[v][i].name)

(***************************************************************************)
(* C12. A parameter call matching the parameter shape whose third argument *)
(* is a literal other than None has a defaultValue equal to the literal's  *)
(* string form, in the parameter record and in the emitted parameter       *)
(* object (0 and the empty string included); a parameter with no third     *)
(* argument, or None as third argument, has no defaultValue.               *)
(***************************************************************************)
ParamShape(p) ==
    /\ p.node = "Call" /\ p.id = "ScriptParam" /\ Len(p.elts) >= 2
    /\ IsDataTypeTag(p.elts[1])
    /\ p.elts[2].node = "Constant" /\ truthy(p.elts[2].value)

\* the parameter calls of a function call that match the parameter shape
SourceParams(item) ==
    IF item.elts[3].node = "List" THEN SelectSeq(item.elts[3].elts, ParamShape) ELSE <<>>

HasDefaultLiteral(p) ==
    Len(p.elts) >= 3 /\ p.elts[3].node = "Constant" /\ p.elts[3].value.ty # "None"

\* a parameter record or emitted parameter object agrees with its call
DefaultAgrees(param, call) ==
    IF HasDefaultLiteral(call)
    THEN param.has_defaultValue /\ param.defaultValue = to_str(call.elts[3].value)
    ELSE ~param.has_defaultValue

DefaultValueFromLiteral ==
    \A v \in {<<"K","O","T","O","R","_","F","U","N","C","T","I","O","N","S">>, <<"T","S","L","_","F","U","N","C","T","I","O","N","S">>} :
        \A i \in 1..Len(definitions[v]) :
            LET calls == SourceParams(Origin(v)[i].item)
                params == definitions[v][i].parameters
            IN  /\ Len(params) = Len(calls)
                /\ \A j \in 1..Len(params) : DefaultAgrees(params[j], calls[j])
                /\ Generated =>
                      \A j \in 1..Len(params) :
                          DefaultAgrees(ts_content[v][i].parameters[j], calls[j])
====
